---- MODULE Spec2Model ----
(***************************************************************************)
(* A state-machine model of the cooperative runtime of this repository:    *)
(*   - eventlet/coros.py      : the one-shot `event` (wait/send/reset/     *)
(*                              cancel)                                    *)
(*   - eventlet/hubs/__init__ : `trampoline`                               *)
(*   - eventlet/coros.py      : `CoroutinePool` (over pools.Pool, which is *)
(*                              not part of the files modelled and follows *)
(*                              the design document, 4.I)                  *)
(*   - eventlet/coros.py      : `Actor`                                    *)
(*   - eventlet/tpool.py      : the native-thread pool and its bridge      *)
(*   - eventlet/hubs/libevent.py : the hub on top of libevent              *)
(*   - eventlet.timeout       : the scoped `Timeout`, as the design        *)
(*                              document (4.H) and the repository's test   *)
(*                              tests/timeout_test_with_statement.py       *)
(*                              describe it                                *)
(* The hub's timer queue, its listener registry and the greenlet switch    *)
(* primitives are not part of the files modelled here; they follow the     *)
(* design document (sections 4.A - 4.E).                                   *)
(***************************************************************************)
EXTENDS Integers, Sequences, FiniteSets, TLC

(***************************************************************************)
(* Bounds of the model.                                                    *)
(***************************************************************************)
MaxEpoch == 1      \* how many times the event may be reset()
MaxTimers == 3     \* how many timers the hub's queue may hold at once
MaxTime == 3       \* how far the hub's clock runs
MaxMsgs == 8       \* how many messages are cast to the Actor
MaxCalls == 2      \* how many tpool.execute calls one fiber makes
MaxKills == 1      \* how many times tpool.killall is called
MaxCancels == 2    \* how many times one timer of the libevent hub is cancelled
MaxWaits == 3      \* how many times wait of the libevent hub is called
MaxSignals == 2    \* how many SIGINT the process gets
MaxEvents == 4     \* how many read/write events the libevent hub creates

(***************************************************************************)
(* The universe.                                                           *)
(***************************************************************************)
Fibers == {"f1", "f2"}               \* greenlets other than the hub's
HUB == "hub"                          \* hub.greenlet, the MAINLOOP
NOT_USED == "NOT_USED"                \* coros.NOT_USED, the FRESH marker
Values == {"None", "x", "y"}          \* what send(result=...) may carry
Excs == {"None", "e"}                 \* what send(exc=...) may carry
Epochs == 0 .. MaxEpoch

VARIABLES
    _result,    \* event._result : NOT_USED while FRESH, else the sent value
    _exc,       \* event._exc    : "unset" before the first send
    _waiters,   \* event._waiters: the keys of the dict
    epoch,      \* event.epoch   : one per reset()
    timers,     \* the hub's queue of zero-delay timers, in firing order
    pc,         \* per fiber: "run" | "wait" (inside event.wait) | "dead"
    got,        \* per fiber: how its most recent wait() ended
    wepoch,     \* per fiber: the epoch in which it last called wait()
    sentVal,    \* per epoch: the result passed to send (NOT_USED if none)
    sentExc,    \* per epoch: the exc passed to send
    err,        \* the error the most recent call raised at its call site
    listeners,  \* the hub's listeners: (fileno, evtype, greenlet to switch to)
    htimers,    \* the hub's timers made by schedule_call_global for trampoline
    tpc,        \* per fiber: "run" | "tramp" (at hub.switch() in trampoline) | "dead"
    tcall,      \* per fiber: the arguments of the trampoline call it is in
    tgot,       \* per caller: how its most recent trampoline call ended
    tmo,        \* per Timeout object: its arguments, its timer, how it ended
    tscopes,    \* the with-blocks the fiber is inside, innermost last
    tfib,       \* the fiber using Timeout: position, exception in flight
    now,        \* the hub's clock
    pool,       \* CoroutinePool: current_size and free_items
    inbox,      \* per worker: its `sender` event
    worker,     \* per worker: position in _main_loop and the job it runs
    receiver,   \* per job: the result event execute() returned
    rwait,      \* per job: the fiber that waits on the result event
    sub,        \* the fiber that submits the jobs
    started,    \* the jobs in the order in which workers began them
    ptimers,    \* the hub's queue of zero-delay timers of the pool's fibers
    jtimers,    \* the pending timers that jobs scheduled, bound to the worker
    jhist,      \* whether a job timer has fired, and whether one was cancelled
    _mailbox,   \* Actor._mailbox, the deque
    _event,     \* Actor._event
    owner,      \* the greenlet of run_forever: its position
    atimers,    \* the hub's queue of zero-delay timers for the Actor's greenlet
    rlog,       \* the messages received() was called with, in order
    ncast,      \* how many messages have been cast
    aerr,       \* the error the most recent cast raised
    _setup_already, \* tpool._setup_already
    _reqq,      \* tpool._reqq, the request queue
    _rspq,      \* tpool._rspq, the response queue
    wakepipe,   \* the pipe _wfile -> _rfile: open?, bytes written and unread
    thr,        \* per worker thread: position in tworker, the request it holds
    _coro,      \* tpool._coro, the greenlet of tpool_trampoline
    tcaller,    \* per calling fiber: position in execute, calls made, the
                \* callable of its current call and how many killall had
                \* finished when it was made, the outcome of the call
                \* before and of this one
    tev,        \* per calling fiber: the result event of its current call
    ttimers,    \* the hub's queue of zero-delay switches to calling fibers
    killer,     \* the fiber that calls killall
    ltimer,     \* libevent hub, per timer: the Timer and its libevent timeout
    interrupted,\* Hub.interrupted
    lwait,      \* Hub.wait: where it is, what happened in its dispatch, how
                \* the call ended
    sigint,     \* SIGINT caught by libevent, its callback not yet run
    lhist,      \* counts: calls of wait, signals, SYSTEM exceptions,
                \* KeyboardInterrupt raised, exceptions squelched
    readers,    \* Hub.readers: fileno -> the event registered (0: no entry)
    writers,    \* Hub.writers: fileno -> the event registered (0: no entry)
    excs,       \* Hub.excs: the filenos with an exc callback
    backend,    \* the read/write events added to libevent
    nextid      \* the next event object

evVars == <<_result, _exc, _waiters, epoch>>
hubVars == <<timers>>
fibVars == <<pc, got, wepoch>>
histVars == <<sentVal, sentExc>>
eventVars == <<_result, _exc, _waiters, epoch, timers, pc, got, wepoch,
               sentVal, sentExc, err>>
trVars == <<listeners, htimers, tpc, tcall, tgot>>
tmVars == <<tmo, tscopes, tfib, now>>
poolVars == <<pool, inbox, worker, receiver, rwait, sub, started, ptimers,
              jtimers, jhist>>
actorVars == <<_mailbox, _event, owner, atimers, rlog, ncast, aerr>>
tpVars == <<_setup_already, _reqq, _rspq, wakepipe, thr, _coro, tcaller, tev,
            ttimers, killer>>
lvTimerVars == <<ltimer>>
lvWaitVars == <<interrupted, lwait, sigint, lhist>>
lvFdVars == <<readers, writers, excs, backend, nextid>>
lvVars == <<lvTimerVars, lvWaitVars, lvFdVars>>
\* what no operation on the event touches
nonEventVars == <<trVars, tmVars, poolVars, actorVars, tpVars, lvVars>>
\* what trampoline and its hub never touch
nonTrVars == <<eventVars, tmVars, poolVars, actorVars, tpVars, lvVars>>
\* what Timeout never touches
nonTmVars == <<eventVars, trVars, poolVars, actorVars, tpVars, lvVars>>
\* what the CoroutinePool never touches
nonPoolVars == <<eventVars, trVars, tmVars, actorVars, tpVars, lvVars>>
\* what the Actor never touches
nonActorVars == <<eventVars, trVars, tmVars, poolVars, tpVars, lvVars>>
\* what tpool never touches
nonTpVars == <<eventVars, trVars, tmVars, poolVars, actorVars, lvVars>>
\* what the libevent hub never touches
nonLvVars == <<eventVars, trVars, tmVars, poolVars, actorVars, tpVars>>
vars == <<_result, _exc, _waiters, epoch, timers, pc, got, wepoch,
          sentVal, sentExc, err, listeners, htimers, tpc, tcall, tgot,
          tmo, tscopes, tfib, now,
          pool, inbox, worker, receiver, rwait, sub, started, ptimers,
          jtimers, jhist,
          _mailbox, _event, owner, atimers, rlog, ncast, aerr,
          _setup_already, _reqq, _rspq, wakepipe, thr, _coro, tcaller, tev,
          ttimers, killer,
          ltimer, interrupted, lwait, sigint, lhist,
          readers, writers, excs, backend, nextid>>

NoOutcome == [how |-> "none", val |-> "None"]
Returned(v) == [how |-> "ret", val |-> v]
Raised(e) == [how |-> "raise", val |-> e]

(***************************************************************************)
(* Init: the state after event.__init__ (which calls reset()), with an     *)
(* empty hub and every fiber runnable.                                     *)
(***************************************************************************)
NoCall == [fileno |-> 0, evtype |-> "NONE", timed |-> FALSE]

InitEvent ==
    /\ _result = NOT_USED
    /\ _exc = "unset"
    /\ _waiters = {}
    /\ epoch = 0
    /\ timers = <<>>
    /\ pc = [f \in Fibers |-> "run"]
    /\ got = [f \in Fibers |-> NoOutcome]
    /\ wepoch = [f \in Fibers |-> 0]
    /\ sentVal = [k \in Epochs |-> NOT_USED]
    /\ sentExc = [k \in Epochs |-> "None"]
    /\ err = "none"

InitTrampoline ==
    /\ listeners = {}
    /\ htimers = {}
    /\ tpc = [f \in Fibers |-> "run"]
    /\ tcall = [f \in Fibers |-> NoCall]
    /\ tgot = [f \in Fibers \cup {HUB} |-> "none"]

(***************************************************************************)
(* Timeout objects.  Two of them, constructed in the order 1, 2; seconds   *)
(* is DELAY or DELAY*2 of the test, or None (timed = FALSE).  The second   *)
(* argument is None ("self": the Timeout raises itself), False ("silent"), *)
(* an exception instance ("inst") or an exception class ("cls").           *)
(***************************************************************************)
TimeoutIds == {1, 2}
Seconds == {1, 2}
Kinds == {"self", "silent", "inst", "cls"}

NoExc == [what |-> "none", of |-> 0]
Error == [what |-> "Error", of |-> 0]     \* an exception the body raises

Unborn == [timed |-> FALSE, seconds |-> 0, kind |-> "self", st |-> "unborn",
           deadline |-> 0, thrown |-> 0, exit |-> "none", exitExc |-> NoExc]

InitTimeout ==
    /\ tmo = [i \in TimeoutIds |-> Unborn]
    /\ tscopes = <<>>
    /\ tfib = [pc |-> "run", flying |-> NoExc, top |-> NoExc]
    /\ now = 0

(***************************************************************************)
(* CoroutinePool(max_size=2) and the four jobs of its doctest.  Three      *)
(* worker identities, so that a pool growing past max_size can be told.    *)
(* A job is known by its number; execute() gives it a result event,        *)
(* execute_async() none.                                                   *)
(***************************************************************************)
max_size == 2
NJobs == 4
Workers == {"w1", "w2", "w3"}
Jobs == 1 .. NJobs

\* An event of the pool.  fresh says that _result is NOT_USED; result is
\* then unused (0 in an inbox, whose results are job numbers).
FreshInbox == [fresh |-> TRUE, result |-> 0, exc |-> "unset", waiters |-> {}]
FreshEvent == [fresh |-> TRUE, result |-> NOT_USED, exc |-> "unset",
               waiters |-> {}]

InitPool ==
    /\ pool = [current_size |-> 0, free_items |-> <<>>]
    /\ inbox = [w \in Workers |-> FreshInbox]
    /\ worker = [w \in Workers |-> [pc |-> "unborn", job |-> 0]]
    /\ receiver = [j \in Jobs |-> FreshEvent]
    /\ rwait = [j \in Jobs |-> [pc |-> "idle", got |-> NoOutcome]]
    /\ sub = [pc |-> "run", next |-> 1, kind |-> [j \in Jobs |-> "none"],
              err |-> "none"]
    /\ started = <<>>
    /\ ptimers = <<>>
    /\ jtimers = {}
    /\ jhist = [fired |-> FALSE, cancelled |-> FALSE]

(***************************************************************************)
(* Actor.__init__ (coros.py 344-348): an empty mailbox, a FRESH event, and *)
(* run_forever spawned, that is, scheduled to start at the next hub tick.  *)
(* The messages are numbered in the order in which they are cast.          *)
(***************************************************************************)
InitActor ==
    /\ _mailbox = <<>>
    /\ _event = FreshEvent
    /\ owner = "unstarted"
    /\ atimers = <<"start">>
    /\ rlog = <<>>
    /\ ncast = 0
    /\ aerr = "none"

(***************************************************************************)
(* tpool at import (tpool.py 30-37, 186-189): nothing is set up.  Two      *)
(* worker threads stand for the _nthreads of the module; two fibers call   *)
(* execute.  The callable is known by what it does: it returns a value,    *)
(* returns a 3-tuple whose second element is an exception object, raises   *)
(* an ordinary Exception, or raises SystemExit/KeyboardInterrupt.          *)
(***************************************************************************)
Threads == {"t1", "t2"}
Callers == {"c1", "c2"}
Meths == {"returns", "returns_tuple", "raises", "sysexit"}

Req(e, meth) == [e |-> e, meth |-> meth]
Sentinel == Req("None", "None")             \* the None of killall
Rsp(e, rv) == [e |-> e, rv |-> rv]

InitTpool ==
    /\ _setup_already = FALSE
    /\ _reqq = <<>>
    /\ _rspq = <<>>
    /\ wakepipe = [open |-> FALSE, bytes |-> 0]
    /\ thr = [t \in Threads |-> [pc |-> "none", msg |-> Sentinel]]
    /\ _coro = [pc |-> "none", kill |-> FALSE, err |-> "none"]
    /\ tcaller = [c \in Callers |->
                     [pc |-> "run", calls |-> 0, meth |-> "None", gen |-> 0,
                      prev |-> NoOutcome, got |-> NoOutcome]]
    /\ tev = [c \in Callers |->
                 [fresh |-> TRUE, result |-> NOT_USED, waiters |-> {},
                  sends |-> 0]]
    /\ ttimers = <<>>
    /\ killer = [pc |-> "idle", n |-> 0]

(***************************************************************************)
(* The libevent hub after Hub.__init__ (libevent.py 40-46): no timer has   *)
(* been scheduled.  A timer is the Timer object (its `called` flag, its    *)
(* impltimer attribute) together with the libevent timeout made for it     *)
(* (ev) and the history the properties need: how often the callback ran,   *)
(* how often cancel was called, whether a cancel came before any fire,     *)
(* and what escaped.  No wait is running, no SIGINT has arrived, and no     *)
(* descriptor is registered.                                               *)
(***************************************************************************)
LTimers == {1, 2, 3}
NoTimer == [st |-> "none", called |-> FALSE, impl |-> FALSE, ev |-> "none",
            calls |-> 0, cancels |-> 0, cancelled_first |-> FALSE,
            err |-> "none"]

LvFilenos == {3, 4}
NoWait == [pc |-> "idle", sig |-> FALSE, result |-> "none"]
NoHist == [waits |-> 0, sigs |-> 0, system |-> 0, raised |-> 0,
           squelched |-> 0]

InitLibevent ==
    /\ ltimer = [t \in LTimers |-> NoTimer]
    /\ interrupted = FALSE
    /\ lwait = NoWait
    /\ sigint = 0
    /\ lhist = NoHist
    /\ readers = [fd \in LvFilenos |-> 0]
    /\ writers = [fd \in LvFilenos |-> 0]
    /\ excs = {}
    /\ backend = {}
    /\ nextid = 1

Init ==
    /\ InitEvent /\ InitTrampoline /\ InitTimeout /\ InitPool /\ InitActor
    /\ InitTpool /\ InitLibevent

(***************************************************************************)
(* The hub (design document 4.B, 4.E): schedule_call(0, cb, *args) appends *)
(* a timer; timers with equal deadline run in insertion order.             *)
(***************************************************************************)
Timer(to, value, exc) == [to |-> to, value |-> value, exc |-> exc]

schedule_call(q, t) == Append(q, t)

\* All orders in which a dict with keys S may be iterated.
Orders(S) ==
    {s \in [1 .. Cardinality(S) -> S] :
        \A i, j \in 1 .. Cardinality(S) : i # j => s[i] # s[j]}

RECURSIVE ScheduleAll(_, _, _)
ScheduleAll(q, order, value) ==
    IF order = <<>> THEN q
    ELSE ScheduleAll(schedule_call(q, Timer(Head(order), value, "None")),
                     Tail(order), value)

(***************************************************************************)
(* event.reset (coros.py 65-89).                                           *)
(***************************************************************************)
reset ==
    /\ UNCHANGED nonEventVars
    /\ IF _result = NOT_USED
       THEN /\ err' = "AssertionError"
            /\ UNCHANGED <<evVars, hubVars, fibVars, histVars>>
       ELSE /\ epoch < MaxEpoch
            /\ epoch' = epoch + 1
            /\ _result' = NOT_USED
            /\ _waiters' = {}
            /\ err' = "none"
            /\ UNCHANGED <<_exc, hubVars, fibVars, histVars>>

(***************************************************************************)
(* event.wait (coros.py 91-117), called by fiber f.  On a FRESH event the  *)
(* caller is recorded and switches to the hub; it stays at that switch     *)
(* until something switches or throws into it (FireTimer below).           *)
(***************************************************************************)
wait(f) ==
    /\ pc[f] = "run"
    /\ wepoch' = [wepoch EXCEPT ![f] = epoch]
    /\ IF _result = NOT_USED
       THEN /\ _waiters' = _waiters \cup {f}
            /\ pc' = [pc EXCEPT ![f] = "wait"]
            /\ got' = [got EXCEPT ![f] = NoOutcome]
       ELSE /\ UNCHANGED <<_waiters, pc>>
            /\ got' = [got EXCEPT ![f] =
                          IF _exc # "None" THEN Raised(_exc)
                                           ELSE Returned(_result)]
    /\ err' = "none"
    /\ UNCHANGED <<_result, _exc, epoch, hubVars, histVars, nonEventVars>>

(***************************************************************************)
(* event.wait called by code that runs on the hub greenlet itself (a timer *)
(* or readiness callback that has not switched) while the event is FRESH.  *)
(* Line 113 records the caller before line 114 reaches hub.switch(); what  *)
(* hub.switch() does on the MAINLOOP (fail, or come straight back) is the  *)
(* hub's business and is left open.                                        *)
(***************************************************************************)
wait_from_hub ==
    /\ _result = NOT_USED
    /\ _waiters' = _waiters \cup {HUB}
    /\ err' \in {"none", "AssertionError"}
    /\ UNCHANGED <<_result, _exc, epoch, hubVars, fibVars, histVars,
                   nonEventVars>>

(***************************************************************************)
(* event.cancel (coros.py 119-161).                                        *)
(***************************************************************************)
cancel_keep(waiter) ==
    /\ err' = "none"
    /\ UNCHANGED nonEventVars
    /\ IF waiter \in _waiters
       THEN /\ Len(timers) < MaxTimers
            /\ timers' = schedule_call(timers,
                                       Timer(waiter, "None", "Cancelled"))
            /\ UNCHANGED <<evVars, fibVars, histVars>>
       ELSE UNCHANGED <<evVars, hubVars, fibVars, histVars>>

cancel(waiter) ==
    /\ err' = "none"
    /\ UNCHANGED nonEventVars
    /\ IF waiter \in _waiters
       THEN /\ Len(timers) < MaxTimers
            /\ _waiters' = _waiters \ {waiter}
            /\ timers' = schedule_call(timers,
                                       Timer(waiter, "None", "Cancelled"))
            /\ UNCHANGED <<_result, _exc, epoch, fibVars, histVars>>
       ELSE UNCHANGED <<evVars, hubVars, fibVars, histVars>>

(***************************************************************************)
(* event.send (coros.py 163-194).  SendTimers is the loop of lines         *)
(* 193-194 over the dict's keys, taken in the order `order`.               *)
(***************************************************************************)
SendTimers_twice(q, order, result) ==
    ScheduleAll(ScheduleAll(q, order, result), order, result)

SendTimers(q, order, result) == ScheduleAll(q, order, result)

send_overwrite(result, exc) ==
    /\ UNCHANGED nonEventVars
    /\ Len(timers) + Cardinality(_waiters) <= MaxTimers
    /\ _result' = result
    /\ _exc' = exc
    /\ \E order \in Orders(_waiters) :
          timers' = SendTimers(timers, order, result)
    /\ sentVal' = [sentVal EXCEPT ![epoch] = result]
    /\ sentExc' = [sentExc EXCEPT ![epoch] = exc]
    /\ err' = "none"
    /\ UNCHANGED <<_waiters, epoch, fibVars>>

send(result, exc) ==
    /\ UNCHANGED nonEventVars
    /\ IF _result # NOT_USED
       THEN /\ err' = "AssertionError"
            /\ UNCHANGED <<evVars, hubVars, fibVars, histVars>>
       ELSE /\ Len(timers) + Cardinality(_waiters) <= MaxTimers
            /\ _result' = result
            /\ _exc' = exc
            /\ \E order \in Orders(_waiters) :
                  timers' = SendTimers(timers, order, result)
            /\ sentVal' = [sentVal EXCEPT ![epoch] = result]
            /\ sentExc' = [sentExc EXCEPT ![epoch] = exc]
            /\ err' = "none"
            /\ UNCHANGED <<_waiters, epoch, fibVars>>

\* The calls the model makes: send(v), send(None, exc=e).
SendArgs == {<<v, "None">> : v \in Values} \cup {<<"None", "e">>}

(***************************************************************************)
(* event.wait at line 114, when the hub's switch comes back into fiber f   *)
(* because timer t switched or threw into it: `return hub.switch()` hands  *)
(* the switched value to the caller of wait(); a thrown exception leaves   *)
(* wait() as it is, since wait has no handler around the switch.  A        *)
(* termination exception ends the fiber.                                   *)
(***************************************************************************)
wait_resumed_reread(f, t) ==
    /\ pc' = [pc EXCEPT ![f] = IF t.exc = "FiberExit" THEN "dead" ELSE "run"]
    /\ got' = [got EXCEPT ![f] =
                  IF t.exc # "None" THEN Raised(t.exc)
                                    ELSE Returned(_result)]
    /\ UNCHANGED wepoch

wait_resumed(f, t) ==
    /\ pc' = [pc EXCEPT ![f] = IF t.exc = "FiberExit" THEN "dead" ELSE "run"]
    /\ got' = [got EXCEPT ![f] =
                  IF t.exc # "None" THEN Raised(t.exc)
                                    ELSE Returned(t.value)]
    /\ UNCHANGED wepoch

(***************************************************************************)
(* greenlib.switch(other, value, exc), run by the hub when a timer is due  *)
(* (design document 4.A, 4.E): throw exc into the target if one is given,  *)
(* else switch to it with value.  A dead greenlet is not resumed; a fiber  *)
(* that is not inside wait() takes the value or exception at whatever      *)
(* suspension point it is at, which this model does not follow further.    *)
(***************************************************************************)
Deliver(t) ==
    LET f == t.to IN
    IF f = HUB \/ pc[f] = "dead"
    THEN UNCHANGED fibVars
    ELSE IF pc[f] = "wait"
    THEN wait_resumed(f, t)
    ELSE /\ pc' = [pc EXCEPT ![f] =
                      IF t.exc = "FiberExit" THEN "dead" ELSE "run"]
         /\ UNCHANGED <<got, wepoch>>

FireTimer ==
    /\ timers # <<>>
    /\ timers' = Tail(timers)
    /\ Deliver(Head(timers))
    /\ UNCHANGED <<evVars, histVars, err, nonEventVars>>

(***************************************************************************)
(* kill(fiber) (design document 4.A): throws the termination exception     *)
(* into the fiber at its next switch-in.                                   *)
(***************************************************************************)
kill(f) ==
    /\ pc[f] # "dead"
    /\ Len(timers) < MaxTimers
    /\ \A i \in 1 .. Len(timers) :
          ~(timers[i].to = f /\ timers[i].exc = "FiberExit")
    /\ timers' = schedule_call(timers, Timer(f, "None", "FiberExit"))
    /\ err' = "none"
    /\ UNCHANGED <<evVars, fibVars, histVars, nonEventVars>>

(***************************************************************************)
(* The hub as trampoline uses it (design document 4.B - 4.D).              *)
(*   hub.add(evtype, fileno, cb) installs a listener and fails when the    *)
(*     (fileno, evtype) pair already has one;                              *)
(*   hub.remove(listener) takes it out;                                    *)
(*   hub.schedule_call_global(seconds, cb, *args) puts a timer in the      *)
(*     heap; t.cancel() flags a pending timer and leaves the node in the   *)
(*     heap, where the hub skips it; cancelling a fired timer does         *)
(*     nothing.                                                            *)
(* A timer is identified by the greenlet its callback throws into.         *)
(***************************************************************************)
Filenos == {3, 4}

Listener(evtype, fileno, f) == [fileno |-> fileno, evtype |-> evtype, fiber |-> f]

HubTimer(f, cancelled) == [fiber |-> f, cancelled |-> cancelled]

hub_add_fails(evtype, fileno) ==
    \E l \in listeners : l.fileno = fileno /\ l.evtype = evtype

hub_remove(L, f) == {l \in L : l.fiber # f}

schedule_call_global(T, f) == T \cup {HubTimer(f, FALSE)}

timer_cancel(T, f) ==
    IF HubTimer(f, FALSE) \in T
    THEN (T \ {HubTimer(f, FALSE)}) \cup {HubTimer(f, TRUE)}
    ELSE T

(***************************************************************************)
(* trampoline (hubs/__init__.py 96-141), from the call to hub.switch() at  *)
(* line 135.  c is the calling greenlet; read and write are the truth      *)
(* values of the arguments, timed says whether timeout is not None.        *)
(***************************************************************************)
EvType(read, write) ==
    IF read THEN "READ" ELSE IF write THEN "WRITE" ELSE "NONE"

trampoline(c, fd, read, write, timed) ==
    /\ c \in Fibers => tpc[c] = "run"
    /\ UNCHANGED nonTrVars
    /\ IF c = HUB \/ (read /\ write)
       THEN \* the assertions of lines 115 and 116
            /\ tgot' = [tgot EXCEPT ![c] = "AssertionError"]
            /\ UNCHANGED <<listeners, htimers, tpc, tcall>>
       ELSE LET evtype == EvType(read, write)
                T == IF timed THEN schedule_call_global(htimers, c)
                              ELSE htimers
            IN  IF evtype # "NONE" /\ hub_add_fails(evtype, fd)
                THEN \* hub.add raises; the finally of line 139 runs
                     /\ htimers' = IF timed THEN timer_cancel(T, c) ELSE T
                     /\ tgot' = [tgot EXCEPT ![c] = "AddError"]
                     /\ UNCHANGED <<listeners, tpc, tcall>>
                ELSE /\ htimers' = T
                     /\ listeners' =
                           IF evtype = "NONE" THEN listeners
                           ELSE listeners \cup {Listener(evtype, fd, c)}
                     /\ tpc' = [tpc EXCEPT ![c] = "tramp"]
                     /\ tcall' = [tcall EXCEPT ![c] =
                                     [fileno |-> fd, evtype |-> evtype,
                                      timed |-> timed]]
                     /\ tgot' = [tgot EXCEPT ![c] = "none"]

(***************************************************************************)
(* trampoline from line 135 on, when the hub's switch comes back into      *)
(* fiber f: with a value (thrown = "None") or with thrown raised at the    *)
(* switch.  T is the timer heap at that moment.  The finally of line 136   *)
(* removes the listener; when neither read nor write was given, the name   *)
(* `listener` was never bound and line 138 raises UnboundLocalError, which *)
(* replaces whatever was propagating.  The finally of line 139 cancels the *)
(* timer.                                                                  *)
(***************************************************************************)
trampoline_resumed_cancel_on_return(f, thrown, T) ==
    LET c == tcall[f]
        outcome == IF c.evtype = "NONE" THEN "UnboundLocalError"
                   ELSE IF thrown = "None" THEN "returned" ELSE thrown
    IN  /\ listeners' = IF c.evtype = "NONE" THEN listeners
                        ELSE hub_remove(listeners, f)
        /\ htimers' = IF c.timed /\ outcome = "returned"
                      THEN timer_cancel(T, f) ELSE T
        /\ tgot' = [tgot EXCEPT ![f] = outcome]
        /\ tpc' = [tpc EXCEPT ![f] =
                      IF outcome = "FiberExit" THEN "dead" ELSE "run"]
        /\ tcall' = [tcall EXCEPT ![f] = NoCall]

trampoline_resumed_no_cancel(f, thrown, T) ==
    LET c == tcall[f]
        outcome == IF c.evtype = "NONE" THEN "UnboundLocalError"
                   ELSE IF thrown = "None" THEN "returned" ELSE thrown
    IN  /\ listeners' = IF c.evtype = "NONE" THEN listeners
                        ELSE hub_remove(listeners, f)
        /\ htimers' = T
        /\ tgot' = [tgot EXCEPT ![f] = outcome]
        /\ tpc' = [tpc EXCEPT ![f] =
                      IF outcome = "FiberExit" THEN "dead" ELSE "run"]
        /\ tcall' = [tcall EXCEPT ![f] = NoCall]

trampoline_resumed(f, thrown, T) ==
    LET c == tcall[f]
        outcome == IF c.evtype = "NONE" THEN "UnboundLocalError"
                   ELSE IF thrown = "None" THEN "returned" ELSE thrown
    IN  /\ listeners' = IF c.evtype = "NONE" THEN listeners
                        ELSE hub_remove(listeners, f)
        /\ htimers' = IF c.timed THEN timer_cancel(T, f) ELSE T
        /\ tgot' = [tgot EXCEPT ![f] = outcome]
        /\ tpc' = [tpc EXCEPT ![f] =
                      IF outcome = "FiberExit" THEN "dead" ELSE "run"]
        /\ tcall' = [tcall EXCEPT ![f] = NoCall]

(***************************************************************************)
(* The hub reports (fileno, evtype) ready and calls the listener's         *)
(* callback, current.switch, of the greenlet that installed it.            *)
(***************************************************************************)
FdReady(l) ==
    /\ l \in listeners
    /\ UNCHANGED nonTrVars
    /\ IF tpc[l.fiber] = "tramp"
       THEN trampoline_resumed(l.fiber, "None", htimers)
       ELSE UNCHANGED trVars

(***************************************************************************)
(* A timer of the heap comes due: a cancelled one is skipped, the other    *)
(* calls its callback, current.throw(timeout_exc).                         *)
(***************************************************************************)
TimerExpire(t) ==
    /\ t \in htimers
    /\ UNCHANGED nonTrVars
    /\ IF t.cancelled \/ tpc[t.fiber] = "dead"
       THEN /\ htimers' = htimers \ {t}
            /\ UNCHANGED <<listeners, tpc, tcall, tgot>>
       ELSE IF tpc[t.fiber] = "tramp"
       THEN trampoline_resumed(t.fiber, "timeout_exc", htimers \ {t})
       ELSE \* thrown into a fiber that has left trampoline
            /\ htimers' = htimers \ {t}
            /\ tgot' = [tgot EXCEPT ![t.fiber] = "stray timeout_exc"]
            /\ UNCHANGED <<listeners, tpc, tcall>>

(***************************************************************************)
(* kill(f) reaching a fiber: the termination exception is raised at its    *)
(* suspension point (design document 4.A).                                 *)
(***************************************************************************)
kill_delivered(f) ==
    /\ tpc[f] # "dead"
    /\ UNCHANGED nonTrVars
    /\ IF tpc[f] = "tramp"
       THEN trampoline_resumed(f, "FiberExit", htimers)
       ELSE /\ tpc' = [tpc EXCEPT ![f] = "dead"]
            /\ tgot' = [tgot EXCEPT ![f] = "FiberExit"]
            /\ UNCHANGED <<listeners, htimers, tcall>>

(***************************************************************************)
(* Timeout (design document 4.H; eventlet.timeout).  One fiber constructs  *)
(* Timeout objects, enters and leaves their with-blocks, sleeps, cancels,  *)
(* raises and catches in any order; the hub's clock advances and the hub   *)
(* fires a due timer while the fiber is suspended.                         *)
(*   start()  schedules a global timer that throws the configured          *)
(*            exception into the fiber that started it;                    *)
(*   cancel() cancels the timer;                                           *)
(*   pending  says whether the timer is still scheduled.                   *)
(* The constructor starts the timeout (the test asserts t.pending before   *)
(* the with-block is entered); seconds = None makes it a no-op.            *)
(***************************************************************************)
Pending(i) == tmo[i].st = "pending"

Inner == tscopes[Len(tscopes)]

Outer(sc) == SubSeq(sc, 1, Len(sc) - 1)

InScope(i) == \E k \in 1 .. Len(tscopes) : tscopes[k] = i

\* The exception the timer of Timeout i throws: the Timeout object itself,
\* the configured instance, or an instance of the configured class.
ExcOf_new_instance(i) ==
    IF tmo[i].kind \in {"self", "silent"}
    THEN [what |-> "Timeout", of |-> 0]
    ELSE [what |-> tmo[i].kind, of |-> i]

ExcOf(i) ==
    IF tmo[i].kind \in {"self", "silent"}
    THEN [what |-> "Timeout", of |-> i]
    ELSE [what |-> tmo[i].kind, of |-> i]

\* Timeout(seconds, exception)
Timeout_init(i, timed, seconds, kind) ==
    /\ tfib.pc = "run"
    /\ tmo[i].st = "unborn"
    /\ \A j \in TimeoutIds : j < i => tmo[j].st # "unborn"
    /\ tmo' = [tmo EXCEPT ![i] =
                  [Unborn EXCEPT !.timed = timed,
                                 !.seconds = IF timed THEN seconds ELSE 0,
                                 !.kind = kind,
                                 !.st = IF timed THEN "pending" ELSE "inactive",
                                 !.deadline = IF timed THEN now + seconds ELSE 0]]
    /\ UNCHANGED <<tscopes, tfib, now, nonTmVars>>

\* with t: (scope entry)
Timeout_enter(i) ==
    /\ tfib.pc = "run"
    /\ tmo[i].st \in {"pending", "inactive", "fired"}
    /\ tmo[i].exit = "none"
    /\ ~InScope(i)
    /\ tscopes' = Append(tscopes, i)
    /\ UNCHANGED <<tmo, tfib, now, nonTmVars>>

\* t.cancel() called by the body
Timeout_cancel(i) ==
    /\ tfib.pc = "run"
    /\ InScope(i)
    /\ Pending(i)
    /\ tmo' = [tmo EXCEPT ![i].st = "cancelled"]
    /\ UNCHANGED <<tscopes, tfib, now, nonTmVars>>

\* What the exit of the with-block of Timeout i catches: its own Timeout
\* object, when the second argument was False.
Catches_any(i, exc) == exc # NoExc /\ tmo[i].kind = "silent"

Catches(i, exc) ==
    /\ exc = [what |-> "Timeout", of |-> i]
    /\ tmo[i].kind = "silent"

\* Scope exit of the innermost with-block, on the normal path and on the
\* exception path: cancel, then catch the exception in flight iff it is this
\* very Timeout and the second argument was False.
Timeout_exit_no_cancel ==
    /\ tscopes # <<>>
    /\ tfib.pc \in {"run", "raise"}
    /\ LET i == Inner
           silent == Catches(i, tfib.flying)
           out == IF silent THEN NoExc ELSE tfib.flying
       IN  /\ tmo' = [tmo EXCEPT
                  ![i].exit = IF tfib.flying = NoExc THEN "normal"
                              ELSE IF silent THEN "silent" ELSE "raised",
                  ![i].exitExc = out]
           /\ tscopes' = Outer(tscopes)
           /\ tfib' = IF out = NoExc
                      THEN [tfib EXCEPT !.pc = "run", !.flying = NoExc]
                      ELSE IF Outer(tscopes) = <<>>
                      THEN [pc |-> "run", flying |-> NoExc, top |-> out]
                      ELSE tfib
    /\ UNCHANGED <<now, nonTmVars>>

Timeout_exit ==
    /\ tscopes # <<>>
    /\ tfib.pc \in {"run", "raise"}
    /\ LET i == Inner
           silent == Catches(i, tfib.flying)
           out == IF silent THEN NoExc ELSE tfib.flying
       IN  /\ tmo' = [tmo EXCEPT
                  ![i].st = IF @ = "pending" THEN "cancelled" ELSE @,
                  ![i].exit = IF tfib.flying = NoExc THEN "normal"
                              ELSE IF silent THEN "silent" ELSE "raised",
                  ![i].exitExc = out]
           /\ tscopes' = Outer(tscopes)
           /\ tfib' = IF out = NoExc
                      THEN [tfib EXCEPT !.pc = "run", !.flying = NoExc]
                      ELSE IF Outer(tscopes) = <<>>
                      THEN [pc |-> "run", flying |-> NoExc, top |-> out]
                      ELSE tfib
    /\ UNCHANGED <<now, nonTmVars>>

\* The timers that are due, and the one the hub fires first: the earliest
\* deadline, and among equal deadlines the one scheduled first.
Due == {i \in TimeoutIds : Pending(i) /\ tmo[i].deadline <= now}

FirstDue_latest(i) ==
    /\ i \in Due
    /\ \A j \in Due : tmo[j].deadline <= tmo[i].deadline

FirstDue(i) ==
    /\ i \in Due
    /\ \A j \in Due : \/ tmo[i].deadline < tmo[j].deadline
                      \/ tmo[i].deadline = tmo[j].deadline /\ i <= j

\* The hub fires the timer of Timeout i: the exception is thrown into the
\* fiber at its suspension point.
Timeout_fire(i) ==
    /\ tfib.pc = "sleep"
    /\ FirstDue(i)
    /\ tmo' = [tmo EXCEPT ![i].st = "fired", ![i].thrown = @ + 1]
    /\ tfib' = IF tscopes = <<>>
               THEN [pc |-> "run", flying |-> NoExc, top |-> ExcOf(i)]
               ELSE [tfib EXCEPT !.pc = "raise", !.flying = ExcOf(i)]
    /\ UNCHANGED <<tscopes, now, nonTmVars>>

\* sleep(): the fiber suspends, and the hub resumes it when the sleep is over
sleep ==
    /\ tfib.pc = "run"
    /\ tfib' = [tfib EXCEPT !.pc = "sleep"]
    /\ UNCHANGED <<tmo, tscopes, now, nonTmVars>>

wake ==
    /\ tfib.pc = "sleep"
    /\ tfib' = [tfib EXCEPT !.pc = "run"]
    /\ UNCHANGED <<tmo, tscopes, now, nonTmVars>>

\* the body of a with-block raises an exception of its own
body_raises ==
    /\ tfib.pc = "run"
    /\ tscopes # <<>>
    /\ tfib' = [tfib EXCEPT !.pc = "raise", !.flying = Error]
    /\ UNCHANGED <<tmo, tscopes, now, nonTmVars>>

\* a try/except inside the body catches the exception in flight
body_catches ==
    /\ tfib.pc = "raise"
    /\ tscopes # <<>>
    /\ tfib' = [tfib EXCEPT !.pc = "run", !.flying = NoExc]
    /\ UNCHANGED <<tmo, tscopes, now, nonTmVars>>

Tick ==
    /\ now < MaxTime
    /\ now' = now + 1
    /\ UNCHANGED <<tmo, tscopes, tfib, nonTmVars>>

(***************************************************************************)
(* CoroutinePool (coros.py 217-309).  The events of the pool are records   *)
(* with the fields of coros.event; EventSend and EventReset are what       *)
(* event.send and event.reset assign.  pools.Pool (get, put, free_items,   *)
(* current_size) follows the design document, 4.I: get() hands out a free  *)
(* worker, creates one while the pool is below max_size, and suspends the  *)
(* caller otherwise; put() gives the worker to a suspended getter, or to   *)
(* the free list.  The greenlets of the pool are resumed by zero-delay     *)
(* timers, in the order in which they were scheduled.                      *)
(***************************************************************************)
EventSend(ev, result, exc) ==
    [ev EXCEPT !.fresh = FALSE, !.result = result, !.exc = exc]

\* unused is what stands for NOT_USED in the result field
EventReset(ev, unused) ==
    [ev EXCEPT !.fresh = TRUE, !.result = unused, !.waiters = {}]

\* kind: "start" runs the spawned _main_loop of worker w; "job" switches to
\* worker w with job j; "item" switches to the submitter with worker w;
\* "result" switches to the waiter of job j with value v.
PTimer(kind, w, j, v) == [kind |-> kind, w |-> w, j |-> j, v |-> v]

NewWorker == CHOOSE w \in Workers : worker[w].pc = "unborn"

\* sender.send((receiver, func, args, kw)), lines 291 and 309, for job j on
\* the inbox of worker w; IB and Q are the inboxes and the timer queue as
\* get() left them.
SendJob(w, j, kind, IB, Q) ==
    IF ~IB[w].fresh
    THEN /\ inbox' = IB
         /\ ptimers' = Q
         /\ sub' = [sub EXCEPT !.pc = "run", !.next = j + 1,
                               !.kind[j] = kind, !.err = "AssertionError"]
    ELSE /\ inbox' = [IB EXCEPT ![w] = EventSend(@, j, "None")]
         /\ ptimers' = IF w \in IB[w].waiters
                       THEN Append(Q, PTimer("job", w, j, "None"))
                       ELSE Q
         /\ sub' = [sub EXCEPT !.pc = "run", !.next = j + 1,
                               !.kind[j] = kind]

\* The capacity test of get().
BelowCapacity_off_by_one == pool.current_size <= max_size

BelowCapacity == pool.current_size < max_size

\* execute (276-292) and execute_async (294-309) of the next job, with
\* create (265-274) when get() makes a new worker.
pool_execute(kind) ==
    /\ sub.pc = "run"
    /\ sub.next <= NJobs
    /\ LET j == sub.next
       IN  IF pool.free_items # <<>>
           THEN /\ pool' = [pool EXCEPT !.free_items = Tail(@)]
                /\ SendJob(Head(pool.free_items), j, kind, inbox, ptimers)
                /\ UNCHANGED worker
           ELSE IF BelowCapacity
           THEN LET w == NewWorker
                IN  /\ pool' = [pool EXCEPT !.current_size = @ + 1]
                    /\ worker' = [worker EXCEPT ![w].pc = "unstarted"]
                    /\ SendJob(w, j, kind,
                               [inbox EXCEPT ![w] = FreshInbox],
                               Append(ptimers,
                                      PTimer("start", w, 0, "None")))
           ELSE /\ sub' = [sub EXCEPT !.pc = "get", !.kind[j] = kind]
                /\ UNCHANGED <<pool, inbox, worker, ptimers>>
    /\ UNCHANGED <<receiver, rwait, started, jtimers, jhist, nonPoolVars>>

\* _main_loop, lines 250-253: recvd is job j; reset the inbox, call func.
TakeJob(w, j, IB) ==
    /\ inbox' = [IB EXCEPT ![w] = EventReset(@, 0)]
    /\ worker' = [worker EXCEPT ![w] = [pc |-> "job", job |-> j]]
    /\ started' = Append(started, j)

\* _main_loop, line 249: sender.wait() blocks on a FRESH inbox and returns
\* the job of a TRIGGERED one at once.
LoopWait_always_blocks(w, IB) ==
    /\ inbox' = [IB EXCEPT ![w].waiters = @ \cup {w}]
    /\ worker' = [worker EXCEPT ![w] = [pc |-> "wait", job |-> 0]]
    /\ UNCHANGED started

LoopWait(w, IB) ==
    IF IB[w].fresh
    THEN /\ inbox' = [IB EXCEPT ![w].waiters = @ \cup {w}]
         /\ worker' = [worker EXCEPT ![w] = [pc |-> "wait", job |-> 0]]
         /\ UNCHANGED started
    ELSE TakeJob(w, IB[w].result, IB)

\* _main_loop, lines 253-263 and back to 249: func comes back (it may have
\* suspended meanwhile) by returning, by raising an Exception or by
\* GreenletExit; the outcome is sent to the result event, the worker puts
\* its inbox back and waits on it.  cancel_timers (line 262) leaves the
\* zero-delay switches alone: the waiter of the doctest (lines 229-231),
\* blocked before the worker ran, is resumed.
main_loop_put_first(w, outcome) ==
    /\ worker[w].pc = "job"
    /\ LET j == worker[w].job
       IN  /\ IF sub.pc = "get"
              THEN /\ sub' = [sub EXCEPT !.pc = "handed"]
                   /\ ptimers' = Append(ptimers, PTimer("item", w, 0, "None"))
                   /\ UNCHANGED pool
              ELSE /\ pool' = [pool EXCEPT !.free_items = Append(@, w)]
                   /\ UNCHANGED <<sub, ptimers>>
           /\ UNCHANGED <<inbox, worker, started, receiver>>
    /\ UNCHANGED <<rwait, jtimers, jhist, nonPoolVars>>

\* A timer that job j, running in worker w, scheduled: bound to w.
JTimer(w, j) == [w |-> w, j |-> j]

BoundTo(T, w) == {t \in T : t.w = w}

\* runloop.cancel_timers(greenlet), line 262
cancel_timers(T, w) == T \ BoundTo(T, w)

main_loop_no_cancel(w, outcome) ==
    /\ worker[w].pc = "job"
    /\ LET j == worker[w].job
           sends == sub.kind[j] = "execute" /\ outcome # "GreenletExit"
           result == IF outcome = "return" THEN "x" ELSE "None"
           exc == IF outcome = "raise" THEN "e" ELSE "None"
           Q == IF sends /\ j \in receiver[j].waiters
                THEN Append(ptimers, PTimer("result", w, j, result))
                ELSE ptimers
       IN  /\ receiver' = IF sends
                          THEN [receiver EXCEPT ![j] = EventSend(@, result, exc)]
                          ELSE receiver
           /\ IF sub.pc = "get"
              THEN /\ sub' = [sub EXCEPT !.pc = "handed"]
                   /\ ptimers' = Append(Q, PTimer("item", w, 0, "None"))
                   /\ UNCHANGED pool
              ELSE /\ pool' = [pool EXCEPT !.free_items = Append(@, w)]
                   /\ ptimers' = Q
                   /\ UNCHANGED sub
           /\ LoopWait(w, inbox)
    /\ UNCHANGED <<rwait, jtimers, jhist, nonPoolVars>>


main_loop(w, outcome) ==
    /\ worker[w].pc = "job"
    /\ LET j == worker[w].job
           sends == sub.kind[j] = "execute" /\ outcome # "GreenletExit"
           result == IF outcome = "return" THEN "x" ELSE "None"
           exc == IF outcome = "raise" THEN "e" ELSE "None"
           Q == IF sends /\ j \in receiver[j].waiters
                THEN Append(ptimers, PTimer("result", w, j, result))
                ELSE ptimers
       IN  /\ receiver' = IF sends
                          THEN [receiver EXCEPT ![j] = EventSend(@, result, exc)]
                          ELSE receiver
           /\ IF sub.pc = "get"
              THEN /\ sub' = [sub EXCEPT !.pc = "handed"]
                   /\ ptimers' = Append(Q, PTimer("item", w, 0, "None"))
                   /\ UNCHANGED pool
              ELSE /\ pool' = [pool EXCEPT !.free_items = Append(@, w)]
                   /\ ptimers' = Q
                   /\ UNCHANGED sub
           /\ jtimers' = cancel_timers(jtimers, w)
           /\ jhist' = [jhist EXCEPT !.cancelled = @ \/ BoundTo(jtimers, w) # {}]
           /\ LoopWait(w, inbox)
    /\ UNCHANGED <<rwait, nonPoolVars>>

Outcomes == {"return", "raise", "GreenletExit"}

\* receiver.wait() by the fiber that waits for the result of job j
receiver_wait(j) ==
    /\ j < sub.next
    /\ sub.kind[j] = "execute"
    /\ rwait[j].pc = "idle"
    /\ IF receiver[j].fresh
       THEN /\ receiver' = [receiver EXCEPT ![j].waiters = @ \cup {j}]
            /\ rwait' = [rwait EXCEPT ![j].pc = "wait"]
       ELSE /\ rwait' = [rwait EXCEPT ![j] =
                           [pc |-> "done",
                            got |-> IF receiver[j].exc # "None"
                                    THEN Raised(receiver[j].exc)
                                    ELSE Returned(receiver[j].result)]]
            /\ UNCHANGED receiver
    /\ UNCHANGED <<pool, inbox, worker, sub, started, ptimers, jtimers, jhist,
                   nonPoolVars>>

\* func, while it runs in worker w, schedules a timer
job_schedules(w) ==
    /\ worker[w].pc = "job"
    /\ JTimer(w, worker[w].job) \notin jtimers
    /\ jtimers' = jtimers \cup {JTimer(w, worker[w].job)}
    /\ UNCHANGED <<pool, inbox, worker, receiver, rwait, sub, started, ptimers,
                   jhist>>
    /\ UNCHANGED nonPoolVars

\* the hub runs a pending timer that a job scheduled
job_timer_fires(t) ==
    /\ t \in jtimers
    /\ jtimers' = jtimers \ {t}
    /\ jhist' = [jhist EXCEPT !.fired = TRUE]
    /\ UNCHANGED <<pool, inbox, worker, receiver, rwait, sub, started, ptimers>>
    /\ UNCHANGED nonPoolVars

\* The hub runs the first timer of its queue.
PoolFireTimer ==
    /\ ptimers # <<>>
    /\ LET t == Head(ptimers)
           Q == Tail(ptimers)
       IN  CASE t.kind = "start" ->
                  /\ LoopWait(t.w, inbox)
                  /\ ptimers' = Q
                  /\ UNCHANGED <<pool, receiver, rwait, sub>>
             [] t.kind = "job" ->
                  /\ IF worker[t.w].pc = "wait"
                     THEN TakeJob(t.w, t.j, inbox)
                     ELSE UNCHANGED <<inbox, worker, started>>
                  /\ ptimers' = Q
                  /\ UNCHANGED <<pool, receiver, rwait, sub>>
             [] t.kind = "item" ->
                  /\ SendJob(t.w, sub.next, sub.kind[sub.next], inbox, Q)
                  /\ UNCHANGED <<pool, worker, receiver, rwait, started>>
             [] t.kind = "result" ->
                  /\ rwait' = [rwait EXCEPT ![t.j] =
                                  [pc |-> "done", got |-> Returned(t.v)]]
                  /\ ptimers' = Q
                  /\ UNCHANGED <<pool, inbox, worker, receiver, sub, started>>
    /\ UNCHANGED <<jtimers, jhist>>
    /\ UNCHANGED nonPoolVars

(***************************************************************************)
(* Actor (coros.py 333-376).  owner is "unstarted", "wait" (blocked in     *)
(* self._event.wait()) or "received" (inside self.received, which may      *)
(* suspend).  Between two suspension points the greenlet runs alone.       *)
(***************************************************************************)
\* run_forever from the top of the loop (line 352) to its next suspension
\* point, with mailbox MB and event EV: a message is handed to received();
\* or the event is waited on, which on a TRIGGERED event comes back at
\* once, resets it, and then blocks on the next round.
RunLoop(MB, EV) ==
    IF MB # <<>>
    THEN /\ rlog' = Append(rlog, Head(MB))
         /\ owner' = "received"
         /\ _event' = EV
    ELSE /\ _event' = IF EV.fresh
                       THEN [EV EXCEPT !.waiters = @ \cup {"owner"}]
                       ELSE [EventReset(EV, NOT_USED) EXCEPT
                                !.waiters = {"owner"}]
         /\ owner' = "wait"
         /\ UNCHANGED rlog

\* received() returns: line 361 pops the message, and the loop goes on.
received_returns ==
    /\ owner = "received"
    /\ _mailbox' = Tail(_mailbox)
    /\ RunLoop(Tail(_mailbox), _event)
    /\ UNCHANGED <<atimers, ncast, aerr, nonActorVars>>

\* cast (lines 363-376), by any greenlet while the owner is suspended.
cast_always_sends ==
    /\ ncast < MaxMsgs
    /\ ncast' = ncast + 1
    /\ _mailbox' = Append(_mailbox, ncast + 1)
    /\ IF ~_event.fresh
       THEN /\ aerr' = "AssertionError"
            /\ UNCHANGED <<_event, atimers>>
       ELSE /\ _event' = EventSend(_event, "None", "None")
            /\ atimers' = IF "owner" \in _event.waiters
                          THEN Append(atimers, "switch")
                          ELSE atimers
            /\ aerr' = "none"
    /\ UNCHANGED <<owner, rlog, nonActorVars>>

cast ==
    /\ ncast < MaxMsgs
    /\ ncast' = ncast + 1
    /\ _mailbox' = Append(_mailbox, ncast + 1)
    /\ IF Len(_mailbox) + 1 = 1
       THEN IF ~_event.fresh
            THEN /\ aerr' = "AssertionError"
                 /\ UNCHANGED <<_event, atimers>>
            ELSE /\ _event' = EventSend(_event, "None", "None")
                 /\ atimers' = IF "owner" \in _event.waiters
                               THEN Append(atimers, "switch")
                               ELSE atimers
                 /\ aerr' = "none"
       ELSE /\ aerr' = "none"
            /\ UNCHANGED <<_event, atimers>>
    /\ UNCHANGED <<owner, rlog, nonActorVars>>

\* The hub runs the first timer: the spawned run_forever starts, or the
\* owner comes back from wait() (line 354) and resets the event (line 355).
ActorFireTimer ==
    /\ atimers # <<>>
    /\ atimers' = Tail(atimers)
    /\ IF Head(atimers) = "start"
       THEN RunLoop(_mailbox, _event)
       ELSE IF owner = "wait"
       THEN RunLoop(_mailbox, EventReset(_event, NOT_USED))
       ELSE UNCHANGED <<_event, owner, rlog>>
    /\ UNCHANGED <<_mailbox, ncast, aerr, nonActorVars>>

(***************************************************************************)
(* tpool (tpool.py).  The worker threads are native threads: their steps   *)
(* interleave with everything.  The fibers (the callers of execute, the    *)
(* bridge fiber tpool_trampoline, the caller of killall) share the hub's   *)
(* thread: one of them runs at a time, and none runs while killall blocks  *)
(* that thread in Thread.join.  greenthread.Event, the queues, the pipe    *)
(* and kill are used as the design describes them.                         *)
(***************************************************************************)
HubFree == _coro.pc # "drain" /\ killer.pc # "join"

Live(t) == thr[t].pc \in {"get", "call", "signal"}

\* setup() (tpool.py 190-224), as the values it leaves behind
setup_already(S) == IF S THEN _setup_already ELSE TRUE
setup_reqq(S) == IF S THEN _reqq ELSE <<>>
setup_rspq(S) == IF S THEN _rspq ELSE <<>>
setup_pipe(S) == IF S THEN wakepipe ELSE [open |-> TRUE, bytes |-> 0]
setup_threads(S) ==
    IF S THEN thr ELSE [t \in Threads |-> [pc |-> "get", msg |-> Sentinel]]
setup_coro(S) ==
    IF S THEN _coro ELSE [pc |-> "unstarted", kill |-> FALSE, err |-> "none"]

\* execute(meth) up to the suspension in e.wait(): setup(), esend, erecv
execute(c, meth) ==
    /\ HubFree
    /\ tcaller[c].pc = "run"
    /\ tcaller[c].calls < MaxCalls
    /\ _setup_already' = setup_already(_setup_already)
    /\ wakepipe' = setup_pipe(_setup_already)
    /\ _rspq' = setup_rspq(_setup_already)
    /\ thr' = setup_threads(_setup_already)
    /\ _coro' = setup_coro(_setup_already)
    /\ _reqq' = Append(setup_reqq(_setup_already), Req(c, meth))
    /\ tev' = [tev EXCEPT ![c] = [fresh |-> TRUE, result |-> NOT_USED,
                                  waiters |-> {c}, sends |-> 0]]
    /\ tcaller' = [tcaller EXCEPT ![c].pc = "wait",
                                  ![c].calls = @ + 1,
                                  ![c].meth = meth,
                                  ![c].gen = killer.n,
                                  ![c].prev = tcaller[c].got,
                                  ![c].got = NoOutcome]
    /\ UNCHANGED <<ttimers, killer>>
    /\ UNCHANGED nonTpVars

\* tworker: msg = _reqq.get(); if msg is None: return
tworker_get(t) ==
    /\ thr[t].pc = "get"
    /\ _reqq # <<>>
    /\ _reqq' = Tail(_reqq)
    /\ thr' = [thr EXCEPT ![t] =
                 IF Head(_reqq) = Sentinel
                 THEN [pc |-> "returned", msg |-> Sentinel]
                 ELSE [pc |-> "call", msg |-> Head(_reqq)]]
    /\ UNCHANGED <<_setup_already, _rspq, wakepipe, _coro, tcaller, tev,
                   ttimers, killer>>
    /\ UNCHANGED nonTpVars

\* what the try statement of tworker leaves in rv
RvOf(meth) ==
    IF meth = "raises" THEN "exc_info"
    ELSE IF meth = "returns_tuple" THEN "tuple" ELSE "v"

\* tworker: the call of meth, and _rspq.put((e, rv)) when control gets there
tworker_call(t) ==
    /\ thr[t].pc = "call"
    /\ IF thr[t].msg.meth = "sysexit"
       THEN /\ thr' = [thr EXCEPT ![t] = [pc |-> "raised", msg |-> Sentinel]]
            /\ UNCHANGED _rspq
       ELSE /\ _rspq' = Append(_rspq, Rsp(thr[t].msg.e, RvOf(thr[t].msg.meth)))
            /\ thr' = [thr EXCEPT ![t] = [pc |-> "signal", msg |-> Sentinel]]
    /\ UNCHANGED <<_setup_already, _reqq, wakepipe, _coro, tcaller, tev,
                   ttimers, killer>>
    /\ UNCHANGED nonTpVars

\* tworker: _signal_t2e(), then back to the top of the loop
tworker_signal_no_write(t) ==
    /\ thr[t].pc = "signal"
    /\ thr' = [thr EXCEPT ![t].pc = "get"]
    /\ UNCHANGED <<_setup_already, _reqq, _rspq, wakepipe, _coro, tcaller, tev,
                   ttimers, killer>>
    /\ UNCHANGED nonTpVars

tworker_signal(t) ==
    /\ thr[t].pc = "signal"
    /\ wakepipe' = [wakepipe EXCEPT !.bytes = @ + 1]
    /\ thr' = [thr EXCEPT ![t].pc = "get"]
    /\ UNCHANGED <<_setup_already, _reqq, _rspq, _coro, tcaller, tev,
                   ttimers, killer>>
    /\ UNCHANGED nonTpVars

\* the hub switches into the greenlet spawn_n made: it runs to _rfile.read(1)
bridge_start ==
    /\ HubFree
    /\ _coro.pc = "unstarted"
    /\ ~_coro.kill
    /\ _coro' = [_coro EXCEPT !.pc = "read"]
    /\ UNCHANGED <<_setup_already, _reqq, _rspq, wakepipe, thr, tcaller, tev,
                   ttimers, killer>>
    /\ UNCHANGED nonTpVars

\* tpool_trampoline: _c = _rfile.read(1) returns one byte
bridge_read ==
    /\ HubFree
    /\ _coro.pc = "read"
    /\ wakepipe.bytes > 0
    /\ wakepipe' = [wakepipe EXCEPT !.bytes = @ - 1]
    /\ _coro' = [_coro EXCEPT !.pc = "drain"]
    /\ UNCHANGED <<_setup_already, _reqq, _rspq, thr, tcaller, tev, ttimers,
                   killer>>
    /\ UNCHANGED nonTpVars

\* greenthread.Event.send(rv) on the result event of caller c
ResultSend(c, rv) ==
    [fresh |-> FALSE, result |-> rv, waiters |-> {},
     sends |-> tev[c].sends + 1]

\* tpool_trampoline: one turn of `while not _rspq.empty()`; when the queue
\* is empty the outer loop reads again, at once while bytes are there
bridge_drain ==
    /\ _coro.pc = "drain"
    /\ IF _rspq # <<>>
       THEN /\ _rspq' = Tail(_rspq)
            /\ IF tev[Head(_rspq).e].fresh
               THEN /\ tev' = [tev EXCEPT ![Head(_rspq).e] =
                                 ResultSend(Head(_rspq).e, Head(_rspq).rv)]
                    /\ ttimers' = IF tev[Head(_rspq).e].waiters # {}
                                  THEN Append(ttimers, Head(_rspq))
                                  ELSE ttimers
                    /\ UNCHANGED _coro
               ELSE /\ _coro' = [_coro EXCEPT !.pc = "dead",
                                              !.err = "AssertionError"]
                    /\ UNCHANGED <<tev, ttimers>>
            /\ UNCHANGED wakepipe
       ELSE /\ IF wakepipe.bytes > 0
               THEN /\ wakepipe' = [wakepipe EXCEPT !.bytes = @ - 1]
                    /\ UNCHANGED _coro
               ELSE /\ _coro' = [_coro EXCEPT !.pc = "read"]
                    /\ UNCHANGED wakepipe
            /\ UNCHANGED <<_rspq, tev, ttimers>>
    /\ UNCHANGED <<_setup_already, _reqq, thr, tcaller, killer>>
    /\ UNCHANGED nonTpVars

\* the kill of killall reaches the bridge where it is suspended
bridge_killed ==
    /\ HubFree
    /\ _coro.kill
    /\ _coro.pc \in {"unstarted", "read"}
    /\ _coro' = [_coro EXCEPT !.pc = "dead", !.kill = FALSE]
    /\ UNCHANGED <<_setup_already, _reqq, _rspq, wakepipe, thr, tcaller, tev,
                   ttimers, killer>>
    /\ UNCHANGED nonTpVars

\* erecv(e) once e.wait() has returned rv
ExcInfoLike(rv) == rv \in {"exc_info", "tuple"}       \* the test of line 85

erecv(rv) == IF ExcInfoLike(rv) THEN Raised("exn") ELSE Returned(rv)

\* the hub switches into the caller a send scheduled: execute finishes
execute_resumed ==
    /\ HubFree
    /\ ttimers # <<>>
    /\ ttimers' = Tail(ttimers)
    /\ tcaller' = [tcaller EXCEPT ![Head(ttimers).e].pc = "run",
                                  ![Head(ttimers).e].got =
                                       erecv(Head(ttimers).rv)]
    /\ UNCHANGED <<_setup_already, _reqq, _rspq, wakepipe, thr, _coro, tev,
                   killer>>
    /\ UNCHANGED nonTpVars

\* one _reqq.put(None) per thread
RECURSIVE Nones(_)
Nones(S) ==
    IF S = {} THEN <<>>
    ELSE LET t == CHOOSE x \in S : TRUE IN <<Sentinel>> \o Nones(S \ {t})

\* killall up to the joins: nothing when not set up, else the sentinels
killall ==
    /\ HubFree
    /\ killer.pc = "idle"
    /\ killer.n < MaxKills
    /\ IF ~_setup_already
       THEN /\ killer' = [killer EXCEPT !.n = @ + 1]
            /\ UNCHANGED _reqq
       ELSE /\ _reqq' = _reqq \o Nones(Threads)
            /\ killer' = [killer EXCEPT !.pc = "join"]
    /\ UNCHANGED <<_setup_already, _rspq, wakepipe, thr, _coro, tcaller, tev,
                   ttimers>>
    /\ UNCHANGED nonTpVars

\* killall: every join has returned; api.kill(_coro); greenthread.sleep(0.01)
killall_joined ==
    /\ killer.pc = "join"
    /\ \A t \in Threads : ~Live(t)
    /\ _coro' = [_coro EXCEPT !.kill = (_coro.pc # "dead")]
    /\ killer' = [killer EXCEPT !.pc = "sleep"]
    /\ UNCHANGED <<_setup_already, _reqq, _rspq, wakepipe, thr, tcaller, tev,
                   ttimers>>
    /\ UNCHANGED nonTpVars

\* killall after the sleep, which outlasts the kill: the files are closed
\* and the globals reset
killall_resumed ==
    /\ HubFree
    /\ killer.pc = "sleep"
    /\ _coro.pc = "dead"
    /\ wakepipe' = [open |-> FALSE, bytes |-> 0]
    /\ _reqq' = <<>>
    /\ _rspq' = <<>>
    /\ _setup_already' = FALSE
    /\ killer' = [pc |-> "idle", n |-> killer.n + 1]
    /\ UNCHANGED <<thr, _coro, tcaller, tev, ttimers>>
    /\ UNCHANGED nonTpVars

(***************************************************************************)
(* The libevent hub (hubs/libevent.py): timers.  Timer itself (its         *)
(* __call__ and cancel) and the libevent timeout are used as the design    *)
(* describes them: a timeout is one-shot, and a Timer runs its callback    *)
(* only if it has neither run nor been cancelled.                          *)
(***************************************************************************)
\* Hub.add_timer: event.timeout(timer.seconds, timer); timer.impltimer; add()
add_timer(tm) == [tm EXCEPT !.impl = TRUE, !.ev = "pending"]

\* timer.impltimer.delete(); del timer.impltimer, in the try of
\* timer_finished and timer_canceled, when the attribute is missing too
impltimer_delete_raises(tm) ==
    IF tm.impl
    THEN [tm EXCEPT !.impl = FALSE, !.ev = "done"]
    ELSE [tm EXCEPT !.err = "AttributeError"]

impltimer_delete(tm) ==
    IF tm.impl
    THEN [tm EXCEPT !.impl = FALSE, !.ev = "done"]
    ELSE tm

\* Hub.timer_finished
timer_finished(tm) == impltimer_delete(tm)

\* Hub.timer_canceled
timer_canceled(tm) == impltimer_delete(tm)

\* hub.schedule_call: a Timer is made and handed to add_timer
lv_schedule(t) ==
    /\ ltimer[t].st = "none"
    /\ ltimer' = [ltimer EXCEPT ![t] = add_timer([NoTimer EXCEPT
                                                    !.st = "scheduled"])]
    /\ UNCHANGED <<lvWaitVars, lvFdVars>>
    /\ UNCHANGED nonLvVars

\* libevent runs a pending timeout: Timer.__call__, then timer_finished
lv_fire(t) ==
    /\ ltimer[t].ev = "pending"
    /\ ltimer' = [ltimer EXCEPT ![t] =
           timer_finished([ltimer[t] EXCEPT
               !.ev = "done",
               !.called = TRUE,
               !.calls = IF ltimer[t].called THEN @ ELSE @ + 1])]
    /\ UNCHANGED <<lvWaitVars, lvFdVars>>
    /\ UNCHANGED nonLvVars

\* Timer.cancel: the flag, then timer_canceled
lv_cancel(t) ==
    /\ ltimer[t].st = "scheduled"
    /\ ltimer[t].cancels < MaxCancels
    /\ ltimer' = [ltimer EXCEPT ![t] =
           timer_canceled([ltimer[t] EXCEPT
               !.called = TRUE,
               !.cancels = @ + 1,
               !.cancelled_first = @ \/ ltimer[t].calls = 0])]
    /\ UNCHANGED <<lvWaitVars, lvFdVars>>
    /\ UNCHANGED nonLvVars

(***************************************************************************)
(* The libevent hub: wait and SIGINT (libevent.py 75-103).  libevent runs  *)
(* the callback of a caught signal, signal_received, inside                *)
(* event.dispatch(); dispatch ends by returning, or with an exception      *)
(* that a callback let escape: one of SYSTEM_EXCEPTIONS or another.        *)
(***************************************************************************)
Dispatches == {"returns", "system", "other"}

\* the process gets a SIGINT; libevent catches it
lv_sigint ==
    /\ lhist.sigs < MaxSignals
    /\ sigint' = sigint + 1
    /\ lhist' = [lhist EXCEPT !.sigs = @ + 1]
    /\ UNCHANGED <<interrupted, lwait>>
    /\ UNCHANGED <<lvTimerVars, lvFdVars>>
    /\ UNCHANGED nonLvVars

\* Hub.wait up to event.dispatch()
lv_wait(seconds) ==
    /\ lwait.pc = "idle"
    /\ lhist.waits < MaxWaits
    /\ lwait' = [pc |-> "dispatch", sig |-> FALSE, result |-> "none"]
    /\ lhist' = [lhist EXCEPT !.waits = @ + 1]
    /\ UNCHANGED <<interrupted, sigint>>
    /\ UNCHANGED <<lvTimerVars, lvFdVars>>
    /\ UNCHANGED nonLvVars

\* Hub.signal_received, called by libevent from within dispatch
signal_received ==
    /\ lwait.pc = "dispatch"
    /\ sigint > 0
    /\ sigint' = sigint - 1
    /\ interrupted' = TRUE
    /\ lwait' = [lwait EXCEPT !.sig = TRUE]
    /\ UNCHANGED lhist
    /\ UNCHANGED <<lvTimerVars, lvFdVars>>
    /\ UNCHANGED nonLvVars

\* the flag after the try statement around event.dispatch()
AfterDispatch(flag, d) == IF d = "system" THEN TRUE ELSE flag

\* Hub.wait from the end of dispatch: how the call ends, and the flag it
\* leaves
wait_end_keeps_flag(flag, d) ==
    IF AfterDispatch(flag, d)
    THEN [result |-> "KeyboardInterrupt", interrupted |-> TRUE]
    ELSE [result |-> "returned", interrupted |-> FALSE]

wait_end(flag, d) ==
    IF AfterDispatch(flag, d)
    THEN [result |-> "KeyboardInterrupt", interrupted |-> FALSE]
    ELSE [result |-> "returned", interrupted |-> FALSE]

\* event.dispatch() ends as d says, and Hub.wait runs to its end
lv_dispatched(d) ==
    /\ lwait.pc = "dispatch"
    /\ interrupted' = wait_end(interrupted, d).interrupted
    /\ lwait' = [lwait EXCEPT !.pc = "idle",
                              !.result = wait_end(interrupted, d).result]
    /\ lhist' = [lhist EXCEPT
         !.system = IF d = "system" THEN @ + 1 ELSE @,
         !.squelched = IF d = "other" THEN @ + 1 ELSE @,
         !.raised = IF wait_end(interrupted, d).result = "KeyboardInterrupt"
                    THEN @ + 1 ELSE @]
    /\ UNCHANGED sigint
    /\ UNCHANGED <<lvTimerVars, lvFdVars>>
    /\ UNCHANGED nonLvVars

(***************************************************************************)
(* The libevent hub: descriptors (libevent.py 48-69).  read, write and exc *)
(* say whether the callback was given.  An event object is known by the    *)
(* number it was made with.                                                *)
(***************************************************************************)
LvEvent(id, fd, dir) == [id |-> id, fd |-> fd, dir |-> dir]

\* event ids the call uses: one for read, the next for write
ReadId(read) == nextid
WriteId(read) == IF read THEN nextid + 1 ELSE nextid

add_descriptor(fileno, read, write, exc) ==
    /\ WriteId(read) + (IF write THEN 1 ELSE 0) <= MaxEvents + 1
    /\ readers' = IF read THEN [readers EXCEPT ![fileno] = ReadId(read)]
                          ELSE readers
    /\ writers' = IF write THEN [writers EXCEPT ![fileno] = WriteId(read)]
                           ELSE writers
    /\ backend' = backend
          \cup (IF read THEN {LvEvent(ReadId(read), fileno, "read")} ELSE {})
          \cup (IF write THEN {LvEvent(WriteId(read), fileno, "write")} ELSE {})
    /\ excs' = IF exc THEN excs \cup {fileno} ELSE excs
    /\ nextid' = WriteId(read) + (IF write THEN 1 ELSE 0)
    /\ UNCHANGED <<lvTimerVars, lvWaitVars>>
    /\ UNCHANGED nonLvVars

\* queue.pop(fileno, None) and tpl[0].delete(), for both queues
Deleted(fileno) ==
    {e \in backend : (e.dir = "read" /\ e.id = readers[fileno])
                      \/ (e.dir = "write" /\ e.id = writers[fileno])}

remove_descriptor(fileno) ==
    /\ backend' = backend \ Deleted(fileno)
    /\ readers' = [readers EXCEPT ![fileno] = 0]
    /\ writers' = [writers EXCEPT ![fileno] = 0]
    /\ excs' = excs \ {fileno}
    /\ UNCHANGED nextid
    /\ UNCHANGED <<lvTimerVars, lvWaitVars>>
    /\ UNCHANGED nonLvVars

(***************************************************************************)
(* Specifications of the event.                                            *)
(*   SpecWSR    : wait, send and reset only, with the hub firing timers.   *)
(*   SpecCancel : SpecWSR plus cancel.                                     *)
(*   SpecKill   : SpecWSR plus kill.                                       *)
(*   SpecHub    : SpecWSR plus wait() and trampoline() called on the hub   *)
(*                greenlet.                                                *)
(***************************************************************************)
NextWSR ==
    \/ \E f \in Fibers : wait(f)
    \/ \E a \in SendArgs : send(a[1], a[2])
    \/ reset
    \/ FireTimer

SpecWSR == Init /\ [][NextWSR]_vars

\* The hub's run loop keeps firing the timers that are due.
SpecWSRFair == SpecWSR /\ WF_vars(FireTimer)

NextCancel ==
    \/ \E f \in Fibers : wait(f)
    \/ \E a \in SendArgs : send(a[1], a[2])
    \/ reset
    \/ \E w \in Fibers : cancel(w)
    \/ FireTimer

SpecCancel == Init /\ [][NextCancel]_vars

NextKill ==
    \/ \E f \in Fibers : wait(f)
    \/ \E a \in SendArgs : send(a[1], a[2])
    \/ reset
    \/ \E f \in Fibers : kill(f)
    \/ FireTimer

SpecKill == Init /\ [][NextKill]_vars

NextHub ==
    \/ \E f \in Fibers : wait(f)
    \/ wait_from_hub
    \/ \E fd \in Filenos : \E read, write, timed \in BOOLEAN :
          trampoline(HUB, fd, read, write, timed)
    \/ \E a \in SendArgs : send(a[1], a[2])
    \/ reset
    \/ FireTimer

SpecHub == Init /\ [][NextHub]_vars

(***************************************************************************)
(* Specification of trampoline: calls from any greenlet, the hub's one     *)
(* included, with every argument combination; fd readiness, timer expiry   *)
(* and kill in any order.                                                  *)
(***************************************************************************)
NextTramp ==
    \/ \E c \in Fibers \cup {HUB} : \E fd \in Filenos :
          \E read, write, timed \in BOOLEAN :
             trampoline(c, fd, read, write, timed)
    \/ \E l \in listeners : FdReady(l)
    \/ \E t \in htimers : TimerExpire(t)
    \/ \E f \in Fibers : kill_delivered(f)

SpecTramp == Init /\ [][NextTramp]_vars

(***************************************************************************)
(* Specification of Timeout.                                               *)
(***************************************************************************)
NextTimeout ==
    \/ \E i \in TimeoutIds : \E timed \in BOOLEAN : \E seconds \in Seconds :
          \E kind \in Kinds : Timeout_init(i, timed, seconds, kind)
    \/ \E i \in TimeoutIds : Timeout_enter(i)
    \/ \E i \in TimeoutIds : Timeout_cancel(i)
    \/ Timeout_exit
    \/ \E i \in TimeoutIds : Timeout_fire(i)
    \/ sleep
    \/ wake
    \/ body_raises
    \/ body_catches
    \/ Tick

SpecTimeout == Init /\ [][NextTimeout]_vars

(***************************************************************************)
(* Specification of the CoroutinePool: one fiber submits the jobs in       *)
(* order, each by execute or by execute_async; the jobs end in any of the  *)
(* three ways; a fiber may wait for each result, before or after the job   *)
(* is done.  The hub keeps running timers and no job runs for ever.        *)
(***************************************************************************)
NextPool ==
    \/ \E kind \in {"execute", "async"} : pool_execute(kind)
    \/ \E w \in Workers : \E outcome \in Outcomes : main_loop(w, outcome)
    \/ \E j \in Jobs : receiver_wait(j)
    \/ PoolFireTimer

SpecPool == Init /\ [][NextPool]_vars

\* the pool with jobs that schedule timers; nobody waits for a result
NextPoolTimers ==
    \/ \E kind \in {"execute", "async"} : pool_execute(kind)
    \/ \E w \in Workers : \E outcome \in Outcomes : main_loop(w, outcome)
    \/ PoolFireTimer
    \/ \E w \in Workers : job_schedules(w)
    \/ \E t \in jtimers : job_timer_fires(t)

SpecPoolTimers == Init /\ [][NextPoolTimers]_vars

SpecPoolFair ==
    /\ SpecPool
    /\ WF_vars(PoolFireTimer)
    /\ WF_vars(\E w \in Workers : \E outcome \in Outcomes : main_loop(w, outcome))
    /\ WF_vars(\E kind \in {"execute", "async"} : pool_execute(kind))

(***************************************************************************)
(* Specification of the Actor: casts at every point where the owner is not *)
(* running.  The hub keeps running timers and received() comes back.       *)
(***************************************************************************)
NextActor ==
    \/ cast
    \/ received_returns
    \/ ActorFireTimer

SpecActor == Init /\ [][NextActor]_vars

SpecActorFair ==
    /\ SpecActor
    /\ WF_vars(ActorFireTimer)
    /\ WF_vars(received_returns)

(***************************************************************************)
(* Specifications of tpool.  Threads that can run do run, and the hub       *)
(* keeps switching into the fibers it has something for.                   *)
(***************************************************************************)
NextTpool ==
    \/ \E c \in Callers, meth \in Meths : execute(c, meth)
    \/ \E t \in Threads : tworker_get(t)
    \/ \E t \in Threads : tworker_call(t)
    \/ \E t \in Threads : tworker_signal(t)
    \/ bridge_start
    \/ bridge_read
    \/ bridge_drain
    \/ bridge_killed
    \/ execute_resumed
    \/ killall
    \/ killall_joined
    \/ killall_resumed

SpecTpool == Init /\ [][NextTpool]_vars

\* tpool while nobody calls killall
NextExecute ==
    \/ \E c \in Callers, meth \in Meths : execute(c, meth)
    \/ \E t \in Threads : tworker_get(t)
    \/ \E t \in Threads : tworker_call(t)
    \/ \E t \in Threads : tworker_signal(t)
    \/ bridge_start
    \/ bridge_read
    \/ bridge_drain
    \/ execute_resumed

SpecExecute == Init /\ [][NextExecute]_vars

SpecExecuteFair ==
    /\ SpecExecute
    /\ \A t \in Threads : WF_vars(tworker_get(t))
    /\ \A t \in Threads : WF_vars(tworker_call(t))
    /\ \A t \in Threads : WF_vars(tworker_signal(t))
    /\ WF_vars(bridge_start)
    /\ WF_vars(bridge_read)
    /\ WF_vars(bridge_drain)
    /\ WF_vars(execute_resumed)

SpecTpoolFair ==
    /\ SpecTpool
    /\ \A t \in Threads : WF_vars(tworker_get(t))
    /\ \A t \in Threads : WF_vars(tworker_call(t))
    /\ \A t \in Threads : WF_vars(tworker_signal(t))
    /\ WF_vars(bridge_start)
    /\ WF_vars(bridge_read)
    /\ WF_vars(bridge_drain)
    /\ WF_vars(bridge_killed)
    /\ WF_vars(execute_resumed)
    /\ WF_vars(killall_joined)
    /\ WF_vars(killall_resumed)

(***************************************************************************)
(* Specifications of the libevent hub.                                     *)
(***************************************************************************)
NextLvTimers ==
    \/ \E t \in LTimers : lv_schedule(t)
    \/ \E t \in LTimers : lv_fire(t)
    \/ \E t \in LTimers : lv_cancel(t)

SpecLvTimers == Init /\ [][NextLvTimers]_vars

NextLvWait ==
    \/ lv_sigint
    \/ \E seconds \in {0, 1} : lv_wait(seconds)
    \/ signal_received
    \/ \E d \in Dispatches : lv_dispatched(d)

SpecLvWait == Init /\ [][NextLvWait]_vars

NextLvFds ==
    \/ \E fd \in LvFilenos : \E read, write, exc \in BOOLEAN :
          add_descriptor(fd, read, write, exc)
    \/ \E fd \in LvFilenos : remove_descriptor(fd)

SpecLvFds == Init /\ [][NextLvFds]_vars

(***************************************************************************)
(* Properties of the event.                                                *)
(***************************************************************************)
TimersFor(f) == {i \in 1 .. Len(timers) : timers[i].to = f}

\* C1: when send(exc=e) is called with a non-null exception on a FRESH
\* event, every fiber whose wait() belongs to that send leaves wait() by
\* raising e, whether it was already blocked at the send or waits after it.
C1_ExcRaisedInEveryWaiter ==
    \A f \in Fibers :
        (got[f].how # "none" /\ sentExc[wepoch[f]] # "None")
            => got[f] = Raised(sentExc[wepoch[f]])

\* C2: event fan-in.  A send on a FRESH event schedules exactly one timer
\* per blocked waiter and does not suspend anybody; each of those waiters
\* is resumed exactly once, on a later hub tick, with the value sent; a
\* wait() after send(v) and before reset returns v at once, suspends nobody
\* and schedules no timer.
C2_Inv ==
    \A f \in Fibers :
        LET sent == sentVal[wepoch[f]] IN
        /\ pc[f] = "run" => TimersFor(f) = {}
        /\ (pc[f] = "wait" /\ sent = NOT_USED)
               => (TimersFor(f) = {} /\ f \in _waiters /\ wepoch[f] = epoch)
        /\ (pc[f] = "wait" /\ sent # NOT_USED)
               => /\ Cardinality(TimersFor(f)) = 1
                  /\ \A i \in TimersFor(f) : timers[i] = Timer(f, sent, "None")
        /\ (pc[f] = "run" /\ got[f].how # "none"
                /\ sentExc[wepoch[f]] = "None")
               => got[f] = Returned(sent)

C2_SendStep ==
    \A a \in SendArgs :
        (_result = NOT_USED /\ send(a[1], a[2]))
            => /\ pc' = pc
               /\ got' = got
               /\ Len(timers') = Len(timers) + Cardinality(_waiters)
               /\ \A i \in 1 .. Len(timers) : timers'[i] = timers[i]

C2_WaitStep ==
    \A f \in Fibers :
        (_result # NOT_USED /\ _exc = "None" /\ wait(f))
            => /\ pc'[f] = "run"
               /\ got'[f] = Returned(_result)
               /\ timers' = timers

C2_Live ==
    \A f \in Fibers : \A v \in Values :
        (pc[f] = "wait" /\ sentVal[wepoch[f]] = v
            /\ sentExc[wepoch[f]] = "None")
        ~> (pc[f] = "run" /\ got[f] = Returned(v))

C2_FanIn == []C2_Inv /\ [][C2_SendStep /\ C2_WaitStep]_vars /\ C2_Live

\* send("x") found two fibers blocked: one has been resumed with "x", the
\* other's timer is still queued; both are listed in the waiter set, which
\* send() leaves as it is.
C2_Witness ==
    /\ _result = "x"
    /\ \E f, g \in Fibers :
          /\ f # g
          /\ f \in _waiters /\ g \in _waiters
          /\ pc[f] = "run" /\ got[f] = Returned("x") /\ wepoch[f] = epoch
          /\ pc[g] = "wait" /\ wepoch[g] = epoch
          /\ timers = <<Timer(g, "x", "None")>>

\* C3: send() on a TRIGGERED event (also one triggered with None) fails
\* with an assertion at the call site, leaves the stored value, the stored
\* exception and the waiter set as they are and schedules no waiter; the
\* stored value and exception of a TRIGGERED event change only through
\* reset().
C3_ResendStep ==
    \A a \in SendArgs :
        (_result # NOT_USED /\ send(a[1], a[2]))
            => /\ err' = "AssertionError"
               /\ UNCHANGED <<_result, _exc, _waiters, timers, pc, got>>

C3_OnlyReset ==
    (_result # NOT_USED /\ (_result' # _result \/ _exc' # _exc))
        => (reset /\ _result' = NOT_USED)

C3_ResendAsserts == [][C3_ResendStep /\ C3_OnlyReset]_vars

\* A re-send has just been refused on an event triggered with None that
\* still lists waiters.
C3_Witness ==
    /\ _result = "None"
    /\ _exc = "None"
    /\ _waiters # {}
    /\ err = "AssertionError"

\* C4: over wait, send and reset, the value a wait() returns is the value
\* of the send of the epoch the wait was made in, and a timer queued for a
\* blocked waiter carries that value whatever reset() and send() do before
\* it fires.
C4_EpochValue ==
    \A f \in Fibers :
        /\ got[f].how = "ret" => got[f].val = sentVal[wepoch[f]]
        /\ pc[f] = "wait"
              => \A i \in TimersFor(f) : timers[i].value = sentVal[wepoch[f]]

\* send("x"); reset(); send("y") have happened while f, a waiter of the
\* first epoch, has not been resumed yet, and g's wait() returned "y".
C4_Witness ==
    \E f, g \in Fibers :
        /\ pc[f] = "wait" /\ wepoch[f] = 0 /\ sentVal[0] = "x"
        /\ epoch = 1 /\ _result = "y"
        /\ got[g] = Returned("y") /\ wepoch[g] = 1

\* C5: cancel(w) has no effect when w is not blocked in wait() on the
\* event, in particular when w was a waiter at the send and the event has
\* not been reset since: no Cancelled is scheduled and the event is as it
\* was.
C5_CancelStep ==
    \A w \in Fibers :
        ((pc[w] # "wait" \/ _result # NOT_USED) /\ cancel(w))
            => UNCHANGED <<_result, _exc, _waiters, epoch, timers>>

C5_CancelOfNonWaiterIsNoOp == [][C5_CancelStep]_vars

\* C6: cancel(w) on a FRESH event takes w, and only w, out of the waiter
\* set and schedules one Cancelled, for w only; the event stays FRESH; a
\* later send(v) succeeds and schedules v once for each fiber still in the
\* waiter set and nothing for w; the Cancelled ends w's wait() and nobody
\* else's, the scheduled v is what a remaining waiter's wait() returns, and
\* a wait() made after the send returns v.
C6_CancelStep ==
    \A w \in Fibers :
        (_result = NOT_USED /\ w \in _waiters /\ cancel(w))
            => /\ _waiters' = _waiters \ {w}
               /\ _result' = NOT_USED
               /\ _exc' = _exc
               /\ timers' = Append(timers, Timer(w, "None", "Cancelled"))
               /\ pc' = pc
               /\ got' = got

C6_SendStep ==
    \A a \in SendArgs :
        (_result = NOT_USED /\ send(a[1], a[2]))
            => /\ err' = "none"
               /\ _result' = a[1]
               /\ Len(timers') = Len(timers) + Cardinality(_waiters)
               /\ \A i \in 1 .. Len(timers) : timers'[i] = timers[i]
               /\ \A f \in _waiters :
                     \E i \in Len(timers) + 1 .. Len(timers') :
                         timers'[i] = Timer(f, a[1], "None")
               /\ \A i \in Len(timers) + 1 .. Len(timers') :
                     timers'[i].to \in _waiters

C6_FireStep ==
    (timers # <<>> /\ FireTimer)
        => LET t == Head(timers) IN
           /\ \A g \in Fibers \ {t.to} : pc'[g] = pc[g] /\ got'[g] = got[g]
           /\ (t.to \in Fibers /\ pc[t.to] = "wait")
                 => /\ t.exc = "Cancelled" => got'[t.to] = Raised("Cancelled")
                    /\ t.exc = "None" => got'[t.to] = Returned(t.value)
                    /\ pc'[t.to] = "run"

C6_WaitStep ==
    \A f \in Fibers :
        (_result # NOT_USED /\ _exc = "None" /\ wait(f))
            => got'[f] = Returned(_result) /\ pc'[f] = "run"

C6_CancelTargetsOne ==
    [][C6_CancelStep /\ C6_SendStep /\ C6_FireStep /\ C6_WaitStep]_vars

\* In the first epoch w was cancelled while g stayed in the waiter set, then
\* send("x") was made: the queue holds w's Cancelled and g's "x", nothing
\* more.
C6_Witness ==
    \E w, g \in Fibers :
        /\ w # g
        /\ epoch = 0 /\ _result = "x"
        /\ pc[w] = "wait" /\ pc[g] = "wait"
        /\ w \notin _waiters /\ g \in _waiters
        /\ timers = <<Timer(w, "None", "Cancelled"), Timer(g, "x", "None")>>

\* C7: a fiber killed while blocked in wait() is out of the waiter set
\* before the termination exception reaches it: the waiter set of a FRESH
\* event holds no dead fiber, and no switch scheduled by send() is queued
\* for a fiber that has left wait().
C7_NoDeadWaiter ==
    /\ _result = NOT_USED
          => \A f \in _waiters \cap Fibers : pc[f] # "dead"
    /\ \A i \in 1 .. Len(timers) :
          (timers[i].exc = "None" /\ timers[i].to \in Fibers)
              => pc[timers[i].to] = "wait"

(***************************************************************************)
(* Properties of Timeout.                                                  *)
(***************************************************************************)
\* Timeout object i as an exception: identity, not type.
Self(i) == [what |-> "Timeout", of |-> i]

Exited(i) == tmo[i].exit # "none"

\* The exception that has just left a scope: still in flight in the
\* enclosing scope, or arrived outside every scope.
Propagating(sc, exc) ==
    IF Len(sc) = 1 THEN tfib'.top = exc /\ tfib'.flying = NoExc
    ELSE tfib'.flying = exc /\ tfib'.pc = "raise"

\* the step is the exit of the with-block of Timeout i
ExitOf(i) ==
    /\ tscopes # <<>>
    /\ Inner = i
    /\ tscopes' = Outer(tscopes)

\* the step throws the exception of Timeout i
FireOf(i) == tmo'[i].thrown > tmo[i].thrown

\* A Timeout constructed with seconds is pending at once.
C11_ConstructStep ==
    \A i \in TimeoutIds :
        (tmo[i].st = "unborn" /\ tmo'[i].st # "unborn" /\ tmo'[i].timed)
            => Pending(i)'

\* A pending Timeout stops being pending only when its timer fires, which
\* needs the fiber suspended and the deadline reached, or when it is
\* cancelled, by cancel() in the body or by the exit of its scope.
C11_StaysPendingStep ==
    \A i \in TimeoutIds :
        (Pending(i) /\ ~Pending(i)')
            => \/ /\ tfib.pc = "sleep"
                  /\ tmo[i].deadline <= now
                  /\ tmo'[i].st = "fired"
               \/ /\ tfib.pc # "sleep"
                  /\ InScope(i)
                  /\ tmo'[i].st = "cancelled"
                  /\ Timeout_cancel(i) \/ ExitOf(i)

\* After scope exit pending is false; a Timeout that was cancelled, inside
\* the body or by the exit, has thrown nothing.
C11_Inv ==
    \A i \in TimeoutIds :
        /\ Exited(i) => ~Pending(i)
        /\ tmo[i].st = "cancelled" => tmo[i].thrown = 0

\* A cancelled Timeout stays cancelled and never throws.
C11_CancelledStep ==
    \A i \in TimeoutIds :
        tmo[i].st = "cancelled"
            => tmo'[i].st = "cancelled" /\ ~FireOf(i)

Configured(i) ==
    IF tmo[i].kind \in {"self", "silent"} THEN Self(i)
    ELSE [what |-> tmo[i].kind, of |-> i]

\* A Timeout throws at most once, and has thrown exactly once when fired.
C12_Inv ==
    \A i \in TimeoutIds :
        /\ tmo[i].thrown <= 1
        /\ tmo[i].st = "fired" <=> tmo[i].thrown = 1

\* The timer fires into the suspended fiber, once the deadline has passed,
\* and what arrives there is the Timeout object itself, or the configured
\* instance, or an instance of the configured class.
C12_FireStep ==
    \A i \in TimeoutIds :
        FireOf(i)
            => /\ Pending(i) /\ tmo[i].deadline <= now
               /\ tfib.pc = "sleep"
               /\ IF tscopes = <<>>
                  THEN tfib'.top = Configured(i) /\ tfib'.pc = "run"
                  ELSE tfib'.flying = Configured(i) /\ tfib'.pc = "raise"

\* The exception of a scope that is not silent leaves the scope as it is.
C12_ExitStep ==
    \A i \in TimeoutIds :
        (/\ ExitOf(i)
         /\ tfib.flying = Configured(i)
         /\ tmo[i].kind # "silent")
            => /\ tmo'[i].exit = "raised"
               /\ tmo'[i].exitExc = Configured(i)
               /\ Propagating(tscopes, Configured(i))

\* C12: when the deadline of a default Timeout scope passes while the body
\* is suspended, exactly one exception is thrown into the fiber that started
\* the timeout and the exception that leaves the scope is the Timeout object
\* of that scope itself; with an exception instance or class configured,
\* that instance, or an instance of that class, is raised.
C12_RaisesItself ==
    /\ []C12_Inv
    /\ [][C12_FireStep]_vars
    /\ [][C12_ExitStep]_vars

\* A default scope left by its own Timeout, which arrived outside, and a
\* second scope left by the instance it was configured with.
C12_Witness ==
    /\ tscopes = <<>>
    /\ tmo[1].kind = "self" /\ tmo[1].thrown = 1
    /\ tmo[1].exit = "raised" /\ tmo[1].exitExc = Self(1)
    /\ tmo[2].kind = "inst" /\ tmo[2].thrown = 1
    /\ tmo[2].exit = "raised"
    /\ tmo[2].exitExc = [what |-> "inst", of |-> 2]
    /\ tfib.top = [what |-> "inst", of |-> 2]

\* Of two pending timeouts the one with the earlier deadline fires first;
\* at that moment the fired one is no longer pending and the other still is.
C13_FireStep ==
    \A i, j \in TimeoutIds :
        (i # j /\ FireOf(i) /\ Pending(j))
            => /\ tmo[i].deadline <= tmo[j].deadline
               /\ ~Pending(i)'
               /\ Pending(j)'

\* The exit of a scope catches the exception in flight iff it is the
\* Timeout of that very scope and the scope is silent; any other exception,
\* the Timeout of an enclosing scope included, goes on to the scope outside.
C13_ExitStep ==
    \A i \in TimeoutIds :
        (ExitOf(i) /\ tfib.flying # NoExc)
            => IF tfib.flying = Self(i) /\ tmo[i].kind = "silent"
               THEN /\ tmo'[i].exit = "silent"
                    /\ tfib'.flying = NoExc /\ tfib'.pc = "run"
                    /\ tfib'.top = tfib.top
               ELSE /\ tmo'[i].exit = "raised"
                    /\ tmo'[i].exitExc = tfib.flying
                    /\ Propagating(tscopes, tfib.flying)

\* After both scopes have been left neither timeout is pending.
C13_Inv ==
    (\A i \in TimeoutIds : Exited(i)) => \A i \in TimeoutIds : ~Pending(i)

\* C13: of two nested Timeout scopes in one fiber the one with the earlier
\* deadline has its exception thrown first, whichever is the outer one; at
\* that moment the fired timeout is not pending and the other still is; an
\* inner scope never swallows the exception of the outer scope, which the
\* outer scope catches iff it is its own; after both scopes have been left
\* neither timeout is pending.
C13_NestedTimeouts ==
    /\ [][C13_FireStep]_vars
    /\ [][C13_ExitStep]_vars
    /\ []C13_Inv

\* Two silent scopes, the outer one with the earlier deadline: the inner
\* scope let the outer Timeout through and the outer scope caught it.
C13_Witness ==
    /\ tscopes = <<>>
    /\ tmo[1].kind = "silent" /\ tmo[2].kind = "silent"
    /\ tmo[1].deadline < tmo[2].deadline
    /\ tmo[1].st = "fired" /\ tmo[2].st = "cancelled"
    /\ tmo[2].exit = "raised" /\ tmo[2].exitExc = Self(1)
    /\ tmo[1].exit = "silent"
    /\ tfib.top = NoExc

\* The exit of a silent scope catches the scope's own Timeout and execution
\* goes on after the scope; nothing arrives outside.
C14_SilentExitStep ==
    \A i \in TimeoutIds :
        (ExitOf(i) /\ tmo[i].kind = "silent" /\ tfib.flying = Self(i))
            => /\ tmo'[i].exit = "silent"
               /\ tfib' = [tfib EXCEPT !.pc = "run", !.flying = NoExc]

\* Once the exception is in flight the body does nothing more: the next
\* step of the fiber is the exit of the scope, or a handler of the body.
C14_InterruptedStep ==
    (tfib.pc = "raise" /\ <<tmo, tscopes, tfib>>' # <<tmo, tscopes, tfib>>)
        => \/ tscopes # <<>> /\ tscopes' = Outer(tscopes)
           \/ body_catches

\* An exception that is not the scope's own Timeout leaves a silent scope.
C14_OtherExitStep ==
    \A i \in TimeoutIds :
        (/\ ExitOf(i) /\ tmo[i].kind = "silent"
         /\ tfib.flying # NoExc /\ tfib.flying # Self(i))
            => /\ tmo'[i].exit = "raised"
               /\ tmo'[i].exitExc = tfib.flying
               /\ Propagating(tscopes, tfib.flying)

\* C14: a Timeout scope with False as its second argument interrupts the
\* body at the deadline and exits silently: its own Timeout is caught at
\* the exit, the rest of the body is not executed and execution goes on
\* after the scope; an exception that is not that scope's own Timeout still
\* propagates out of the scope.
C14_SilentTimeout ==
    /\ [][C14_SilentExitStep]_vars
    /\ [][C14_InterruptedStep]_vars
    /\ [][C14_OtherExitStep]_vars

\* A silent scope interrupted at its deadline and left silently, and a
\* second silent scope left by the body's own exception.
C14_Witness ==
    /\ tscopes = <<>> /\ tfib.pc = "run"
    /\ tmo[1].kind = "silent" /\ tmo[1].st = "fired"
    /\ tmo[1].exit = "silent"
    /\ tmo[2].kind = "silent" /\ tmo[2].exit = "raised"
    /\ tmo[2].exitExc = Error /\ tfib.top = Error

(***************************************************************************)
(* Properties of the CoroutinePool.                                        *)
(***************************************************************************)
Born == {w \in Workers : worker[w].pc # "unborn"}

Free == {pool.free_items[k] : k \in 1 .. Len(pool.free_items)}

\* the workers whose inbox the submitter is about to be resumed with
Handed == {ptimers[k].w : k \in {n \in 1 .. Len(ptimers) :
                                    ptimers[n].kind = "item"}}

\* Workers in use plus free workers are the workers there are, at most
\* max_size; a free worker is listed once and is blocked on its FRESH inbox;
\* the inbox of a worker that runs a job is FRESH and is neither in the free
\* list nor on its way to the submitter.
C15_Inv ==
    /\ Cardinality(Born) = pool.current_size
    /\ pool.current_size <= max_size
    /\ Free \subseteq Born
    /\ Cardinality(Free) = Len(pool.free_items)
    /\ \A w \in Free \cup Handed : worker[w].pc = "wait" /\ inbox[w].fresh
    /\ Free \cap Handed = {}
    /\ \A w \in Workers :
          worker[w].pc = "job"
              => inbox[w].fresh /\ w \notin Free /\ w \notin Handed

\* A job is sent to an inbox only when its worker runs none, and a worker
\* that runs a job begins no other one.
C15_Step ==
    \A w \in Workers :
        /\ (inbox[w].fresh /\ ~inbox'[w].fresh) => worker[w].pc # "job"
        /\ (worker[w].pc = "job" /\ worker'[w].pc = "job")
              => worker'[w].job = worker[w].job

\* C15: in every reachable state of a CoroutinePool the workers in use plus
\* the free workers are at most max_size, and no worker runs two jobs at
\* once: its inbox event is handed to a new execute/execute_async only
\* after the worker has finished its previous job and put itself back.
C15_BoundedOneJobEach ==
    /\ []C15_Inv
    /\ [][C15_Step]_vars

\* The pool is at capacity, one worker is on its second job, the other one
\* still on its first, and the submitter is suspended in get().
C15_Witness ==
    /\ pool.current_size = max_size
    /\ sub.pc = "get" /\ sub.next = 4
    /\ started = <<1, 2, 3>>
    /\ \E w, v \in Workers :
          /\ worker[w] = [pc |-> "job", job |-> 3]
          /\ worker[v] = [pc |-> "job", job |-> 2]

\* Jobs are begun in the order of their submission.
C16_Inv == \A k \in 1 .. Len(started) : started[k] = k

\* Every job has been run and every worker is idle again.
C16_AllRun ==
    /\ Len(started) = NJobs
    /\ \A w \in Workers : worker[w].pc # "job"

\* C16: jobs submitted to a CoroutinePool from one fiber are started in
\* submission order, also when the pool is at capacity and the submitter is
\* suspended until a worker frees: with max_size = 2 and four jobs, job k
\* never starts before job k-1 has started, and every job is eventually run
\* once the hub keeps ticking.
C16_FifoAndDrained ==
    /\ []C16_Inv
    /\ <>C16_AllRun

\* The submitter was suspended with job 3, has been handed a worker, and
\* job 3 is running while job 4 waits for a worker.
C16_Witness ==
    /\ sub.pc = "handed" /\ sub.next = 4
    /\ started = <<1, 2, 3>>
    /\ pool.free_items = <<>>

\* C17: when the function run by CoroutinePool.execute raises an exception,
\* the fiber that waits on the result event gets that exception raised from
\* wait(), whether it starts to wait after the worker has failed or was
\* blocked in wait() already when the worker failed.
C17_FailureReachesWaiter ==
    \A j \in Jobs :
        (/\ rwait[j].pc = "done"
         /\ ~receiver[j].fresh
         /\ receiver[j].exc = "e")
            => rwait[j].got = Raised("e")

(***************************************************************************)
(* Properties of the Actor.                                                *)
(***************************************************************************)
\* the messages whose received() has returned
Done == Len(rlog) - (IF owner = "received" THEN 1 ELSE 0)

\* received() has been called with the messages 1, 2, ... in this order,
\* each once; the mailbox holds the cast messages that are not done, the
\* one being received first; no cast has raised; and an owner blocked on
\* the event with a message in the mailbox has its switch queued.
C18_Inv ==
    /\ \A k \in 1 .. Len(rlog) : rlog[k] = k
    /\ Len(rlog) <= ncast
    /\ Done >= 0
    /\ _mailbox = [k \in 1 .. (ncast - Done) |-> Done + k]
    /\ aerr # "AssertionError"
    /\ (owner = "wait" /\ _mailbox # <<>>)
          => \E k \in 1 .. Len(atimers) : atimers[k] = "switch"

\* received() is entered again only in the step in which the previous call
\* returns and its message is popped.
C18_Step ==
    (owner = "received" /\ rlog' # rlog)
        => /\ _mailbox' = Tail(_mailbox)
           /\ rlog' = Append(rlog, Head(_mailbox'))

\* C18: under any interleaving of cast() with the owner loop (before the
\* owner first runs, while it is blocked on its event, while received() is
\* suspended), received is called exactly once for every cast message, in
\* cast order, never before the previous call has returned; cast never
\* trips the double-send assertion of the event; and the owner is never
\* left blocked on the event while the mailbox is non-empty: every cast
\* message is received in the end.
C18_ActorMailbox ==
    /\ []C18_Inv
    /\ [][C18_Step]_vars
    /\ \A k \in 1 .. MaxMsgs : (ncast >= k) ~> (Len(rlog) >= k)

\* Message 1 was cast before the owner ran, message 2 while received(1) was
\* suspended, message 3 while the owner was blocked on the event: its
\* switch is queued.
C18_Witness ==
    /\ owner = "wait"
    /\ rlog = <<1, 2>>
    /\ _mailbox = <<3>>
    /\ ~_event.fresh
    /\ atimers = <<"switch">>

(***************************************************************************)
(* Properties of tpool.                                                    *)
(***************************************************************************)
\* the result event of c's current request has been sent
Sent(c) == tev[c].sends >= 1

LiveThreads == {t \in Threads : Live(t)}

\* C19: no result event is sent twice: no event counts two sends, and the
\* bridge never dies of the assertion of a second send
C19_Inv ==
    /\ \A c \in Callers : tev[c].sends <= 1
    /\ _coro.err = "none"

\* C19: whatever the callable does, and whether or not killall is called
\* while requests are queued or in flight, every request that execute put
\* on the request queue produces exactly one send on its result event: none
\* is sent twice, and none is left unsent
C19_ExactlyOneSend ==
    /\ []C19_Inv
    /\ \A c \in Callers : (tcaller[c].pc = "wait") ~> Sent(c)

\* the callable of the request raises when it is called
Raises(meth) == meth \in {"raises", "sysexit"}

\* C20: the thread that runs a callable that raises stays alive in its
\* loop: the number of live worker threads is unchanged
C20_ThreadSurvivesStep ==
    \A t \in Threads :
        tworker_call(t) /\ Raises(thr[t].msg.meth)
            => Live(t)' /\ LiveThreads' = LiveThreads

\* C20: the exception of a callable that raises is re-raised in the fiber
\* that called execute
C20_Reraised ==
    \A c \in Callers :
        (tcaller[c].pc = "wait" /\ Raises(tcaller[c].meth))
            ~> (tcaller[c].pc = "run" /\ tcaller[c].got = Raised("exn"))

\* C20: after that, an execute of a callable that returns v returns v
C20_NextReturns ==
    \A c \in Callers :
        (/\ tcaller[c].pc = "wait"
         /\ tcaller[c].prev = Raised("exn")
         /\ tcaller[c].meth = "returns")
            ~> (tcaller[c].pc = "run" /\ tcaller[c].got = Returned("v"))

\* C20: when the callable passed to execute raises, the exception is
\* re-raised in the calling fiber, the worker thread that ran it stays alive
\* (the number of live worker threads is unchanged), and a later execute of
\* a callable that returns v returns v
C20_RaiseIsReraised ==
    /\ [][C20_ThreadSurvivesStep]_vars
    /\ C20_Reraised
    /\ C20_NextReturns

\* the request of caller c has been run by a worker thread and its response
\* queued, if not yet sent
Processed(c) == Sent(c) \/ \E i \in 1 .. Len(_rspq) : _rspq[i].e = c

\* C21: when the joins of killall complete, every worker thread has taken
\* one sentinel and returned, no sentinel and no request is left on the
\* queue, and every request queued before the sentinels has been processed
C21_JoinedStep ==
    killall_joined =>
        /\ \A t \in Threads : thr[t].pc = "returned"
        /\ _reqq = <<>>
        /\ \A c \in Callers : tcaller[c].pc = "wait" => Processed(c)

\* C21: a thread takes a sentinel only when every request queued before
\* it has been taken
C21_SentinelStep ==
    \A t \in Threads :
        tworker_get(t) /\ thr'[t].pc = "returned"
            => \A i \in 1 .. Len(_reqq) : _reqq[i] = Sentinel

\* C21: when killall returns the bridge fiber is dead, the pipe is closed
\* and the module is not set up
C21_ResumedStep ==
    killall_resumed =>
        /\ _coro'.pc = "dead"
        /\ ~wakepipe'.open
        /\ ~_setup_already'
        /\ _reqq' = <<>> /\ _rspq' = <<>>

\* C21: killall when not set up does nothing
C21_NotSetUpStep ==
    killall /\ ~_setup_already =>
        UNCHANGED <<_setup_already, _reqq, _rspq, wakepipe, thr, _coro,
                    tcaller, tev, ttimers>>

\* C21: the execute after killall sets tpool up again, bridge included
C21_ReinitStep ==
    \A c \in Callers, meth \in Meths :
        execute(c, meth) /\ ~_setup_already =>
            /\ _setup_already' /\ wakepipe'.open
            /\ _coro'.pc = "unstarted"
            /\ \A t \in Threads : Live(t)'

\* C21: killall, once it waits for the threads, gets to its end
C21_Terminates == (killer.pc = "join") ~> (killer.pc = "idle")

\* C21: an execute made after killall returns its result
C21_NextExecuteReturns ==
    \A c \in Callers :
        (/\ tcaller[c].pc = "wait"
         /\ tcaller[c].gen = MaxKills
         /\ tcaller[c].meth = "returns")
            ~> (tcaller[c].pc = "run" /\ tcaller[c].got = Returned("v"))

\* C21: killall terminates: each of the worker threads takes exactly one
\* of the sentinels and returns, after every request queued before them has
\* been processed, so the joins complete; afterwards the bridge fiber is
\* dead, the pipe closed and the module not set up, and the next execute
\* sets the bridge up again and returns its result; killall when not set
\* up does nothing
C21_KillallTerminates ==
    /\ [][C21_JoinedStep]_vars
    /\ [][C21_SentinelStep]_vars
    /\ [][C21_ResumedStep]_vars
    /\ [][C21_NotSetUpStep]_vars
    /\ [][C21_ReinitStep]_vars
    /\ C21_Terminates
    /\ C21_NextExecuteReturns

\* the free list as a set has as many members as the list has entries
PutOnce(w) ==
    \/ /\ pool' = [pool EXCEPT !.free_items = Append(@, w)]
       /\ \A i \in 1 .. Len(pool.free_items) : pool.free_items[i] # w
       /\ sub' = sub
    \/ /\ sub.pc = "get" /\ sub'.pc = "handed"
       /\ pool' = pool
       /\ ptimers'[Len(ptimers')] = PTimer("item", w, 0, "None")

\* C25: a pending timer of a job is bound to the worker that still runs
\* that job; a worker in the free list, or on its way to the submitter, is
\* there once and waits on its FRESH inbox; no send of a job has tripped the
\* assertion of a second send
C25_Inv ==
    /\ \A t \in jtimers : worker[t.w] = [pc |-> "job", job |-> t.j]
    /\ \A i, k \in 1 .. Len(pool.free_items) :
          pool.free_items[i] = pool.free_items[k] => i = k
    /\ \A w \in Free \cup Handed :
          worker[w].pc = "wait" /\ inbox[w].fresh /\ w \in inbox[w].waiters
    /\ sub.err # "AssertionError"

\* C25: when a worker finishes a job, however the job ends, no timer bound
\* to it is pending any more, it is put back once, and it waits on its
\* FRESH inbox
C25_FinishStep ==
    \A w \in Workers : \A outcome \in Outcomes :
        main_loop(w, outcome) =>
            /\ BoundTo(jtimers', w) = {}
            /\ BoundTo(jtimers, w) # {} => jhist'.cancelled
            /\ PutOnce(w)
            /\ worker'[w].pc = "wait"
            /\ inbox'[w].fresh /\ w \in inbox'[w].waiters

\* C25: a timer that a job scheduled fires only during that job
C25_FireStep ==
    \A t \in jtimers :
        job_timer_fires(t) => worker[t.w] = [pc |-> "job", job |-> t.j]

Queued(c) == \E i \in 1 .. Len(_rspq) : _rspq[i].e = c

\* C26: every response placed on the response queue is eventually sent to
\* its result event
C26_Delivered == \A c \in Callers : Queued(c) ~> Sent(c)

\* C26: the bridge sends the responses in the order in which they were
\* enqueued: a send is that of the response at the head of the queue, which
\* is taken off, and responses join the queue at its end
C26_OrderStep ==
    /\ (\E c \in Callers : tev'[c].sends > tev[c].sends)
          => /\ _rspq # <<>>
             /\ _rspq' = Tail(_rspq)
             /\ tev' = [tev EXCEPT ![Head(_rspq).e] =
                           ResultSend(Head(_rspq).e, Head(_rspq).rv)]
    /\ (\E t \in Threads : tworker_call(t))
          => \/ _rspq' = _rspq
             \/ \E r \in {Rsp(c, RvOf(meth)) : c \in Callers, meth \in Meths} :
                   _rspq' = Append(_rspq, r)

\* C26: no wake-up is lost in the bridge: under any interleaving of the
\* worker threads (put the response, then write one byte) with the bridge
\* fiber (read one byte, then drain the queue until it is empty), threads
\* and hub being scheduled fairly, every response placed on the response
\* queue is eventually sent to its result event, also when one drain takes
\* several responses and later bytes find the queue empty; the responses
\* are sent in the order in which they were enqueued
C26_NoLostWakeup ==
    /\ C26_Delivered
    /\ [][C26_OrderStep]_vars

\* one drain has sent two responses, in the order of the queue, and the byte
\* of the second one is still in the pipe and will find the queue empty
C26_Witness ==
    /\ _coro.pc = "drain"
    /\ _rspq = <<>>
    /\ wakepipe.bytes = 1
    /\ Len(ttimers) = 2
    /\ \A t \in Threads : thr[t].pc = "get"
    /\ \A c \in Callers : Sent(c) /\ tcaller[c].calls = 1

\* what the callable returns, when it returns
ReturnOf(meth) == IF meth = "returns_tuple" THEN "tuple" ELSE "v"

\* C27: an execute that ends raises exactly if its callable raised in the
\* worker thread, and else returns the value the callable returned
C27_ResumedStep ==
    execute_resumed =>
        LET c == Head(ttimers).e
        IN  /\ tcaller'[c].got.how = "raise" <=> Raises(tcaller[c].meth)
            /\ ~Raises(tcaller[c].meth)
                  => tcaller'[c].got = Returned(ReturnOf(tcaller[c].meth))

\* C27: execute raises in the caller if and only if the callable raised in
\* the worker thread, and otherwise returns exactly the value the callable
\* returned, whatever that value is, a 3-tuple whose second element is an
\* exception object included
C27_RaisesIffRaised == [][C27_ResumedStep]_vars

(***************************************************************************)
(* Properties of the libevent hub.                                         *)
(***************************************************************************)
\* C22: the callback of a timer has run at most once, never after a cancel
\* that came before the fire, and no cancel has raised
C22_Inv ==
    \A t \in LTimers :
        /\ ltimer[t].calls <= 1
        /\ ltimer[t].cancelled_first => ltimer[t].calls = 0
        /\ ltimer[t].err = "none"

\* C22: a cancel takes a pending timer out of libevent
C22_CancelStep ==
    \A t \in LTimers : lv_cancel(t) => ltimer'[t].ev # "pending"

\* C22: a second cancel, and a cancel of a timer that has fired, change
\* nothing but the count of cancels
C22_NoOpStep ==
    \A t \in LTimers :
        lv_cancel(t) /\ (ltimer[t].cancels >= 1 \/ ltimer[t].calls = 1)
            => ltimer'[t] = [ltimer[t] EXCEPT !.cancels = @ + 1]

\* C22: under any sequence of schedule, fire and cancel, the callback of a
\* timer is invoked at most once and never after a cancel that preceded the
\* fire; a second cancel, or a cancel of a fired timer, changes nothing and
\* raises nothing
C22_TimerAtMostOnce ==
    /\ []C22_Inv
    /\ [][C22_CancelStep]_vars
    /\ [][C22_NoOpStep]_vars

C22_Witness ==
    /\ ltimer[1].calls = 1 /\ ltimer[1].cancels = 2
    /\ ltimer[2].cancelled_first /\ ltimer[2].cancels = 2
    /\ ltimer[3].calls = 1 /\ ltimer[3].cancels = 0

\* C23: outside wait the interrupted flag is false, and no more
\* KeyboardInterrupt have been raised than signals and SYSTEM exceptions
\* have come
C23_Inv ==
    /\ lwait.pc = "idle" => ~interrupted
    /\ lhist.raised <= (lhist.sigs - sigint) + lhist.system

\* C23: wait raises KeyboardInterrupt exactly if SIGINT was received or a
\* SYSTEM exception escaped the dispatch during that wait; another
\* exception is squelched, and nothing else is, and with it alone wait
\* returns; the flag is false when wait ends
C23_EndStep ==
    \A d \in Dispatches :
        lv_dispatched(d) =>
            /\ lwait'.result = "KeyboardInterrupt" <=> (lwait.sig \/ d = "system")
            /\ lwait'.result \in {"KeyboardInterrupt", "returned"}
            /\ lhist'.squelched = lhist.squelched + (IF d = "other" THEN 1 ELSE 0)
            /\ (d = "other" /\ ~lwait.sig) => lwait'.result = "returned"
            /\ ~interrupted'

\* C23: wait raises KeyboardInterrupt after the dispatch has returned if
\* and only if SIGINT was received or a SYSTEM exception escaped the
\* dispatch during that wait; any other exception escaping the dispatch
\* goes to squelch_exception and wait returns; the interrupted flag is
\* false again when wait returns or raises, so one signal produces at most
\* one interrupt
C23_WaitInterrupt ==
    /\ []C23_Inv
    /\ [][C23_EndStep]_vars

C23_Witness ==
    /\ lwait.pc = "idle"
    /\ lwait.result = "returned"
    /\ lhist.waits = 3
    /\ lhist.sigs = 1 /\ sigint = 0
    /\ lhist.system = 1
    /\ lhist.raised = 2
    /\ lhist.squelched = 1

\* the events the registry of the hub holds
Registry ==
    {LvEvent(readers[fd], fd, "read") : fd \in {x \in LvFilenos : readers[x] # 0}}
    \cup
    {LvEvent(writers[fd], fd, "write") : fd \in {x \in LvFilenos : writers[x] # 0}}

\* C24: the events registered with libevent are exactly the entries of the
\* registry, at most one per fileno and direction
C24_Inv ==
    /\ backend = Registry
    /\ \A e1, e2 \in backend :
          e1.fd = e2.fd /\ e1.dir = e2.dir => e1 = e2

\* C24: a second listener for a fileno and direction that has one is
\* rejected: the call adds no event and leaves the registry as it was
C24_RejectStep ==
    \A fd \in LvFilenos : \A read, write, exc \in BOOLEAN :
        (/\ add_descriptor(fd, read, write, exc)
         /\ \/ read /\ readers[fd] # 0
            \/ write /\ writers[fd] # 0)
            => UNCHANGED <<readers, writers, backend>>

\* C24: remove_descriptor(fd) leaves no event, reader, writer or exc
\* callback for fd, and changes nothing for a fileno it does not know
C24_RemoveStep ==
    \A fd \in LvFilenos :
        remove_descriptor(fd) =>
            /\ \A e \in backend' : e.fd # fd
            /\ readers'[fd] = 0 /\ writers'[fd] = 0 /\ fd \notin excs'
            /\ (readers[fd] = 0 /\ writers[fd] = 0 /\ fd \notin excs)
                  => UNCHANGED <<readers, writers, excs, backend>>

\* C24: after any sequence of add_descriptor and remove_descriptor the
\* read/write events registered with libevent are exactly the entries of
\* the readers/writers registry, at most one per fileno and direction; a
\* second listener for a fileno and direction is rejected and leaves no
\* orphaned event; remove_descriptor(fd) leaves no event, reader, writer or
\* exc callback for fd, and is a no-op for an unknown fd
C24_BackendMirrorsRegistry ==
    /\ []C24_Inv
    /\ [][C24_RejectStep]_vars
    /\ [][C24_RemoveStep]_vars

(***************************************************************************)
(* Properties of trampoline.                                               *)
(***************************************************************************)
ListenersOf(f) == {l \in listeners : l.fiber = f}

\* Every fiber outside trampoline has left nothing in the hub: no listener
\* and no timer that can still fire.
C8_Inv ==
    \A f \in Fibers :
        tpc[f] # "tramp"
            => ListenersOf(f) = {} /\ HubTimer(f, FALSE) \notin htimers

\* A resume of a call that installed a listener, by readiness, timeout or
\* kill, ends the call with the listener removed and the timer cancelled.
C8_ResumeStep ==
    \A f \in Fibers :
        (/\ tpc[f] = "tramp"
         /\ tcall[f].evtype # "NONE"
         /\ tpc'[f] # "tramp")
            => /\ listeners' = hub_remove(listeners, f)
               /\ HubTimer(f, FALSE) \notin htimers'
               /\ tgot'[f] \in {"returned", "timeout_exc", "FiberExit"}

\* A call whose hub.add fails leaves the listeners as they were and no live
\* timer of the caller behind.
C8_AddFailsStep ==
    \A f \in Fibers : \A fd \in Filenos : \A read, write \in BOOLEAN :
        (/\ trampoline(f, fd, read, write, TRUE)
         /\ read # write
         /\ hub_add_fails(EvType(read, write), fd))
            => /\ tgot'[f] = "AddError" /\ tpc'[f] = "run"
               /\ listeners' = listeners
               /\ htimers' = htimers \cup {HubTimer(f, TRUE)}

\* C8: however a trampoline call that installed its listener is resumed
\* (fd readiness, its timeout exception, kill), the listener is removed and
\* the timeout timer cancelled when the call ends; when installing the
\* listener fails, the timer already scheduled is cancelled all the same.
C8_ListenerAndTimerReleased ==
    /\ []C8_Inv
    /\ [][C8_ResumeStep]_vars
    /\ [][C8_AddFailsStep]_vars

\* One fiber's hub.add failed with its timer scheduled, and the cancelled
\* node is still in the heap; the other, which held the listener, was
\* resumed by its own timeout.
C8_Witness ==
    \E f, g \in Fibers :
        /\ f # g
        /\ tgot[f] = "AddError" /\ HubTimer(f, TRUE) \in htimers
        /\ tgot[g] = "timeout_exc" /\ tpc[g] = "run"
        /\ listeners = {} /\ HubTimer(g, FALSE) \notin htimers

\* A call with both read and write true raises AssertionError and changes
\* nothing in the hub.
C9_BothStep ==
    \A c \in Fibers : \A fd \in Filenos : \A timed \in BOOLEAN :
        trampoline(c, fd, TRUE, TRUE, timed)
            => /\ tgot'[c] = "AssertionError"
               /\ UNCHANGED <<listeners, htimers, tpc, tcall>>

\* A fiber suspended in trampoline has its listener installed.
C9_SuspendedHasListener ==
    \A f \in Fibers : tpc[f] = "tramp" => ListenersOf(f) # {}

\* C9: trampoline requires exactly one of read and write: with both true it
\* fails with an assertion and leaves the hub unchanged, and it never
\* suspends the caller without a listener installed for the direction.
C9_ExactlyOneOfReadWrite ==
    /\ [][C9_BothStep]_vars
    /\ []C9_SuspendedHasListener

\* A trampoline call made on the hub greenlet raises AssertionError and
\* installs no listener and no timer.
C10_TrampolineStep ==
    \A fd \in Filenos : \A read, write, timed \in BOOLEAN :
        trampoline(HUB, fd, read, write, timed)
            => /\ tgot'[HUB] = "AssertionError"
               /\ UNCHANGED <<listeners, htimers, tpc, tcall, eventVars>>

\* A wait() on a FRESH event made on the hub greenlet raises AssertionError
\* and leaves the event as it was.
C10_WaitStep ==
    wait_from_hub => err' = "AssertionError" /\ UNCHANGED evVars

\* C10: trampoline and event.wait on a FRESH event both refuse a call made
\* on the hub greenlet with an assertion and leave hub and event unchanged:
\* no listener or timer is installed and the hub greenlet is never recorded
\* in the waiter set.
C10_HubNeverWaits ==
    /\ [][C10_TrampolineStep]_vars
    /\ [][C10_WaitStep]_vars
    /\ [](HUB \notin _waiters)

\* the timer of f's call can still throw
LiveTimer(f) == HubTimer(f, FALSE) \in htimers

\* C28: a fiber outside trampoline has no listener and no timer that can
\* still throw, and has been thrown no timeout of an earlier call; a fiber
\* inside has at most one listener, and a live timer only if its call has a
\* timeout
C28_Inv ==
    \A f \in Fibers :
        /\ tpc[f] # "tramp" => ListenersOf(f) = {} /\ ~LiveTimer(f)
        /\ tgot[f] # "stray timeout_exc"
        /\ tpc[f] = "tramp" =>
              /\ Cardinality(ListenersOf(f)) <= 1
              /\ LiveTimer(f) => tcall[f].timed

\* C28: readiness resumes the call by returning, and with that the timer
\* is cancelled: it can no longer throw
C28_ReadyStep ==
    \A l \in listeners :
        FdReady(l) =>
            /\ tpc[l.fiber] = "tramp" /\ tpc'[l.fiber] = "run"
            /\ tgot'[l.fiber] = "returned"
            /\ ListenersOf(l.fiber)' = {}
            /\ ~LiveTimer(l.fiber)'
            /\ tcall[l.fiber].timed => HubTimer(l.fiber, TRUE) \in htimers'

\* C28: the timer resumes the call by throwing, and with that the listener
\* is removed: readiness can no longer switch to the caller; a cancelled
\* timer is skipped and reaches nobody
C28_TimerStep ==
    \A t \in htimers :
        TimerExpire(t) =>
            IF t.cancelled
            THEN UNCHANGED <<listeners, tpc, tcall, tgot>>
            ELSE /\ tpc[t.fiber] = "tramp" /\ tpc'[t.fiber] = "run"
                 /\ tcall[t.fiber].timed
                 /\ tcall[t.fiber].evtype # "NONE"
                       => tgot'[t.fiber] = "timeout_exc"
                 /\ ListenersOf(t.fiber)' = {}
                 /\ ~LiveTimer(t.fiber)'

\* C28: a call without a timeout is never ended by a timeout exception
C28_UntimedStep ==
    \A f \in Fibers :
        (tpc[f] = "tramp" /\ ~tcall[f].timed /\ tpc'[f] # "tramp")
            => tgot'[f] # "timeout_exc"

\* C28: a trampoline call with a timeout is resumed exactly once, by fd
\* readiness or by the timeout exception, never by both: whichever comes
\* first, the other can no longer reach the caller (the listener is
\* removed, or the timer is cancelled and skipped), so no stale switch or
\* throw is delivered to the fiber at a later suspension point
C28_ResumedExactlyOnce ==
    /\ []C28_Inv
    /\ [][C28_ReadyStep]_vars
    /\ [][C28_TimerStep]_vars
    /\ [][C28_UntimedStep]_vars

\* one fiber was resumed by readiness and runs on, its cancelled timer still
\* in the heap; the other was resumed by its timeout and runs on, no
\* listener of it left
C28_Witness ==
    \E f, g \in Fibers :
        /\ f # g
        /\ tgot[f] = "returned" /\ tpc[f] = "run"
        /\ HubTimer(f, TRUE) \in htimers
        /\ tgot[g] = "timeout_exc" /\ tpc[g] = "run"
        /\ ListenersOf(g) = {}

====
